---- MODULE Spec2Model ----
(***************************************************************************)
(* Model of the better-auth SpiceDB plugin (src/src/client.ts, the server  *)
(* part `spicedb`): the five endpoints check, check-bulk, lookup-resources,*)
(* write-relationship and delete-relationship, each as the handler's code  *)
(* up to its await on the remote engine followed by the engine's answer.   *)
(*                                                                         *)
(* Strings are TLA+ strings; `a \o b` is JS string concatenation, Len is   *)
(* .length and SubSeq is .slice.  The remote engine (SpiceDB) is external: *)
(* its answers are drawn nondeterministically from what the client library *)
(* can deliver (a permissionship, a stream of ids, or a rejection).        *)
(***************************************************************************)
EXTENDS Integers, Sequences, FiniteSets, TLC

VARIABLES
    options,      \* SpiceDBPluginOptions the plugin was constructed with
    hooks,        \* the plugin's hooks object: event name -> handlers
    store,        \* relationship tuples held by the remote engine
    snapshot,     \* an earlier revision of store the engine may still serve
    ledger,       \* history: the writes answered with success and not
                  \* followed by a delete request for the same tuple
    pc,           \* the handler suspended at an await, or "idle"
    req,          \* the request being (or last) served: endpoint, session, body
    calls,        \* remote requests issued while serving req, in issue order
    promises,     \* checkBulk: the promises of checks.map(...), by index
    streamed,     \* lookupResources: resourceObjectIds received so far
    resourceIds,  \* lookupResources: the local array resourceIds
    replies,      \* the engine's answers to calls, in arrival order
    caught,       \* err.message in the handler's catch block, if it ran
    response      \* what the handler returned for req

vars == <<options, hooks, store, snapshot, ledger, pc, req, calls, promises, streamed, resourceIds,
          replies, caught, response>>

-----------------------------------------------------------------------------
(* Bounds of the model *)

\* longest `checks` array of a check-bulk request
MaxChecks == 2
\* longest stream the engine delivers to one lookup
MaxStream == 3
\* longest options.relationships list
MaxMappings == 2

-----------------------------------------------------------------------------
(* JavaScript values *)

\* the JS value undefined (an absent optional field)
undefined == "<undefined>"

\* variant: only undefined counts as missing, the empty string does not
FalsyUndefinedOnly(x) == x = undefined

\* the JS value null where a string is expected
nil == "<null>"

\* !x for a string, undefined or null x
Falsy(x) == x = undefined \/ x = "" \/ x = nil

\* a || b
OrElse(a, b) == IF Falsy(a) THEN b ELSE a

\* variant: a string is not taken to start with the whole of itself
StartsWithProper(s, prefix) ==
    /\ Len(prefix) < Len(s)
    /\ SubSeq(s, 1, Len(prefix)) = prefix

\* rawId.startsWith(prefix)
StartsWith(s, prefix) ==
    /\ Len(prefix) <= Len(s)
    /\ SubSeq(s, 1, Len(prefix)) = prefix

\* rawId.slice(n)
Slice(s, n) == SubSeq(s, n + 1, Len(s))

-----------------------------------------------------------------------------
(* Inputs *)

Namespaces    == {undefined, "", "ns_"}
ResourceTypes == {"agent"}
ResourceIds   == {"1", "2"}
Permissions   == {"view", "edit"}
SubjectTypes  == {"user"}
Relations     == {"owner"}
\* body.subjectId: z.string().optional()
SubjectIdArgs == {undefined, "", "bob"}
\* body.context: z.record(z.any()).optional()
ContextArgs   == {undefined, "ctx"}
\* ids the engine streams back to a lookup
WireIds       == {"ns_a", "ns_b", "c", "ns_"}
\* err.message of a rejected remote call
Messages      == {"UNAVAILABLE", "DEADLINE_EXCEEDED"}
\* err.message of a throwing Struct.fromJson
StructMessage == "invalid context"

\* ctx.context.session: null, or a session with its user
null     == [present |-> FALSE]
\* callers of the read endpoints
Sessions == {null, [present |-> TRUE, user |-> [id |-> "alice", role |-> "user"]]}
\* callers of the mutation endpoints
MutationSessions ==
    Sessions \cup {[present |-> TRUE, user |-> [id |-> "root", role |-> "admin"]]}

\* whether Struct.fromJson(context) throws; it is not called without a context
FromJsonOutcomes(context) == IF context = undefined THEN {FALSE} ELSE BOOLEAN

\* variant: a request without a session is given a guest identity
SessionUserIdGuest(session) == IF session.present THEN session.user.id ELSE "guest"

\* session?.user?.id
SessionUserId(session) == IF session.present THEN session.user.id ELSE undefined

Permissionships == {"UNSPECIFIED", "NO_PERMISSION", "HAS_PERMISSION",
                    "CONDITIONAL_PERMISSION"}

\* what awaiting a unary remote check delivers
CheckOutcomes ==
    [ok : {TRUE}, permissionship : Permissionships]
        \cup [ok : {FALSE}, message : Messages]

-----------------------------------------------------------------------------
(* Responses *)

NoRequest  == [endpoint |-> "none"]
NoResponse == [kind |-> "none"]

\* ctx.json(body, {status})
Json(body, status) == [kind |-> "json", body |-> body, status |-> status]

\* an exception leaving the handler
Throw(message) == [kind |-> "throw", message |-> message]

-----------------------------------------------------------------------------
(* Tuple codec *)

\* `${x}` for a string, undefined or null x
TemplateString(x) ==
    IF x = undefined THEN "undefined" ELSE IF x = nil THEN "null" ELSE x

\* variant: the prefix is prepended without asking whether one is configured
namespaceUnconditional(id) ==
    TemplateString(options.namespace) \o TemplateString(id)

\* const namespace = (id) => options.namespace ? `${options.namespace}${id}` : id
namespace(id) ==
    IF Falsy(options.namespace) THEN id ELSE options.namespace \o TemplateString(id)

\* variant: the session user wins over the subjectId of the request
ActualSubjectIdSessionFirst(session, body) ==
    OrElse(SessionUserId(session), body.subjectId)

\* variant: only the session names the subject
ActualSubjectIdSessionOnly(session, body) == SessionUserId(session)

\* subjectId || session?.user?.id
ActualSubjectId(session, body) == OrElse(body.subjectId, SessionUserId(session))

\* context ? Struct.fromJson(context) : undefined
ContextStruct(context) == IF context = undefined THEN undefined ELSE context

\* variant: a check records the subject as a viewer of what it asks about
CheckPermissionRequestTouching(check, body, actualSubjectId) ==
    [rpc     |-> "writeRelationships",
     updates |-> <<[operation    |-> "TOUCH",
                    relationship |->
                        [resource |-> [objectType |-> check.resourceType,
                                       objectId |-> namespace(check.resourceId)],
                         relation |-> "viewer",
                         subject  |-> [objectType |-> body.subjectType,
                                       objectId |-> namespace(actualSubjectId)]]]>>]

\* variant: every check asks for the newest revision
CheckPermissionRequestFullyConsistent(check, body, actualSubjectId) ==
    [rpc         |-> "checkPermission",
     resource    |-> [objectType |-> check.resourceType,
                      objectId |-> namespace(check.resourceId)],
     permission  |-> check.permission,
     subject     |-> [objectType |-> body.subjectType,
                      objectId |-> namespace(actualSubjectId)],
     consistency |-> "fullyConsistent",
     context     |-> ContextStruct(body.context)]

\* v1.CheckPermissionRequest.create({...})
\* for the item `check` (the body itself in spicedbCheck) of the request `body`
CheckPermissionRequest(check, body, actualSubjectId) ==
    [rpc         |-> "checkPermission",
     resource    |-> [objectType |-> check.resourceType,
                      objectId |-> namespace(check.resourceId)],
     permission  |-> check.permission,
     subject     |-> [objectType |-> body.subjectType,
                      objectId |-> namespace(actualSubjectId)],
     consistency |-> undefined,
     context     |-> ContextStruct(body.context)]

\* variant: a conditional permission is taken for a grant
AllowedOrConditional(permissionship) ==
    permissionship \in {"HAS_PERMISSION", "CONDITIONAL_PERMISSION"}

\* response.permissionship === HAS_PERMISSION
Allowed(permissionship) == permissionship = "HAS_PERMISSION"

-----------------------------------------------------------------------------
(* The hooks object built while the plugin is constructed *)

\* the built-in handlers of the organization plugin's events
AddMemberHandler    == [kind |-> "addMember"]
RemoveMemberHandler == [kind |-> "removeMember"]

\* the closure pushed for one entry of options.relationships
MappingHandler(mapping) == [kind |-> "mapping", mapping |-> mapping]

\* variant: the organization handlers are installed whatever the flag says
BuiltinHooksAlways(opts) ==
    ("organization.addMember" :> <<AddMemberHandler>>)
        @@ ("organization.removeMember" :> <<RemoveMemberHandler>>)

\* const hooks = {}; if (options.syncOrganizations) { hooks[...] = [...] }
BuiltinHooks(opts) ==
    IF opts.syncOrganizations
    THEN ("organization.addMember" :> <<AddMemberHandler>>)
             @@ ("organization.removeMember" :> <<RemoveMemberHandler>>)
    ELSE <<>>

\* variant: the handler takes the place of the list registered before
RegisterReplacing(h, mapping) ==
    IF mapping.on \in DOMAIN h
    THEN [h EXCEPT ![mapping.on] = <<MappingHandler(mapping)>>]
    ELSE h @@ (mapping.on :> <<MappingHandler(mapping)>>)

\* if (!hooks[mapping.on]) hooks[mapping.on] = []; hooks[mapping.on].push(...)
Register(h, mapping) ==
    IF mapping.on \in DOMAIN h
    THEN [h EXCEPT ![mapping.on] = Append(@, MappingHandler(mapping))]
    ELSE h @@ (mapping.on :> <<MappingHandler(mapping)>>)

\* options.relationships.forEach((mapping) => ...), from index k on
RECURSIVE RegisterAll(_, _, _)
RegisterAll(h, mappings, k) ==
    IF k > Len(mappings) THEN h
    ELSE RegisterAll(Register(h, mappings[k]), mappings, k + 1)

\* the hooks object of the plugin built from opts
BuildHooks(opts) == RegisterAll(BuiltinHooks(opts), opts.relationships, 1)

-----------------------------------------------------------------------------
(* Initial state: the plugin has been constructed, nothing served yet *)

\* the state right after spicedb(options) returned, the engine being empty
Constructed ==
    /\ hooks = BuildHooks(options)
    /\ store = {}
    /\ snapshot = {}
    /\ ledger = {}
    /\ pc = "idle"
    /\ req = NoRequest
    /\ calls = <<>>
    /\ promises = <<>>
    /\ streamed = <<>>
    /\ resourceIds = <<>>
    /\ replies = <<>>
    /\ caught = undefined
    /\ response = NoResponse

\* a plugin with no event syncing configured
Init ==
    /\ options \in [namespace : Namespaces, syncOrganizations : {FALSE},
                     relationships : {<<>>}]
    /\ Constructed

\* the response has gone back to the caller and the handler's frame with it;
\* the plugin keeps nothing of a served request, the engine keeps its tuples
Returned ==
    /\ pc = "idle"
    /\ req # NoRequest
    /\ req' = NoRequest
    /\ response' = NoResponse
    /\ calls' = <<>>
    /\ promises' = <<>>
    /\ streamed' = <<>>
    /\ resourceIds' = <<>>
    /\ replies' = <<>>
    /\ caught' = undefined
    /\ UNCHANGED <<options, hooks, store, snapshot, ledger, pc>>

-----------------------------------------------------------------------------
(* POST /spicedb/check *)

CheckBodies ==
    [resourceType : ResourceTypes, resourceId : ResourceIds,
     permission : Permissions, subjectId : SubjectIdArgs,
     subjectType : SubjectTypes, context : ContextArgs]

\* variant: no try/catch around the awaited check
CheckResultUncaught(outcome) ==
    IF outcome.ok
    THEN Json([allowed |-> Allowed(outcome.permissionship)], 200)
    ELSE Throw(outcome.message)

\* the handler's result once the awaited check has settled
CheckResult(outcome) ==
    IF outcome.ok
    THEN Json([allowed |-> Allowed(outcome.permissionship)], 200)
    ELSE Json([allowed |-> FALSE, error |-> outcome.message], 500)

\* the handler up to `await promiseClient.checkPermission(request)`
spicedbCheck(session, body, fromJsonThrows) ==
    /\ pc = "idle"
    /\ req = NoRequest
    /\ req' = [endpoint |-> "check", session |-> session, body |-> body]
    /\ UNCHANGED <<options, hooks, store, snapshot, ledger, promises, streamed,
                   resourceIds, replies>>
    /\ LET actualSubjectId == ActualSubjectId(session, body)
       IN  IF Falsy(actualSubjectId)
           THEN /\ response' = Json([allowed |-> FALSE, reason |-> "unauthenticated"], 401)
                /\ calls' = <<>>
                /\ caught' = undefined
                /\ pc' = "idle"
           ELSE IF fromJsonThrows
           THEN /\ response' = CheckResult([ok |-> FALSE, message |-> StructMessage])
                /\ calls' = <<>>
                /\ caught' = StructMessage
                /\ pc' = "idle"
           ELSE /\ response' = NoResponse
                /\ caught' = undefined
                /\ calls' = <<CheckPermissionRequest(body, body, actualSubjectId)>>
                /\ pc' = "check"

\* the awaited checkPermission settles and the handler returns
CheckSettles(outcome) ==
    /\ pc = "check"
    /\ replies' = Append(replies, [index |-> 1, outcome |-> outcome])
    /\ caught' = IF outcome.ok THEN undefined ELSE outcome.message
    /\ response' = CheckResult(outcome)
    /\ pc' = "idle"
    /\ UNCHANGED <<options, hooks, store, snapshot, ledger, req, calls, promises,
                   streamed, resourceIds>>

NextCheck ==
    \/ \E session \in Sessions, body \in CheckBodies :
           \E fromJsonThrows \in FromJsonOutcomes(body.context) :
               spicedbCheck(session, body, fromJsonThrows)
    \/ \E outcome \in CheckOutcomes : CheckSettles(outcome)
    \/ Returned

SpecCheck == Init /\ [][NextCheck]_vars

-----------------------------------------------------------------------------
(* POST /spicedb/check-bulk *)

CheckItems ==
    {[resourceType |-> "agent", resourceId |-> "1", permission |-> "view"],
     [resourceType |-> "agent", resourceId |-> "2", permission |-> "edit"]}

\* the arrays of at most n check items
RECURSIVE ChecksUpTo(_)
ChecksUpTo(n) ==
    IF n = 0 THEN {<<>>}
    ELSE LET shorter == ChecksUpTo(n - 1)
         IN  shorter \cup {Append(checks, item) :
                               checks \in {c \in shorter : Len(c) = n - 1},
                               item \in CheckItems}

BulkBodies ==
    [checks : ChecksUpTo(MaxChecks), subjectId : SubjectIdArgs,
     subjectType : SubjectTypes, context : ContextArgs]

\* states of one promise of checks.map(async (check) => ...)
Pending          == [state |-> "pending"]
Fulfilled(value) == [state |-> "fulfilled", value |-> value]
Rejected(reason) == [state |-> "rejected", reason |-> reason]

\* the value the mapped async function returns for `check`
BulkItemResult(check, permissionship) ==
    [resourceType |-> check.resourceType,
     resourceId   |-> check.resourceId,
     permission   |-> check.permission,
     allowed      |-> Allowed(permissionship)]

\* variant: a failed item is caught in the mapped function and reported as
\* not allowed
BulkItemSettledIsolated(check, outcome) ==
    IF outcome.ok
    THEN Fulfilled(BulkItemResult(check, outcome.permissionship))
    ELSE Fulfilled(BulkItemResult(check, "NO_PERMISSION"))

\* how the promise of `check` settles when its awaited remote check does
BulkItemSettled(check, outcome) ==
    IF outcome.ok
    THEN Fulfilled(BulkItemResult(check, outcome.permissionship))
    ELSE Rejected(outcome.message)

\* variant: the values are collected as the answers arrive
PromiseAllValuesByArrival(ps) == [k \in 1..Len(ps) |-> ps[replies'[k].index].value]

\* variant: only the allowed entries are kept
PromiseAllValuesAllowedOnly(ps) ==
    SelectSeq([i \in 1..Len(ps) |-> ps[i].value], LAMBDA v : v.allowed)

\* the array Promise.all resolves with: the promises' values by index
PromiseAllValues(ps) == [i \in 1..Len(ps) |-> ps[i].value]

\* return ctx.json({ results })
BulkResults(ps) == Json([results |-> PromiseAllValues(ps)], 200)

\* the catch block of the handler
BulkFailed(message) == Json([results |-> <<>>, error |-> message], 500)

\* the handler up to `await Promise.all(...)`: the map runs every item's
\* async function to its first await, so every remote check is issued
\* before any answer is looked at
spicedbCheckBulk(session, body, fromJsonThrows) ==
    /\ pc = "idle"
    /\ req = NoRequest
    /\ req' = [endpoint |-> "checkBulk", session |-> session, body |-> body]
    /\ UNCHANGED <<options, hooks, store, snapshot, ledger, streamed, resourceIds, replies>>
    /\ LET actualSubjectId == ActualSubjectId(session, body)
           n == Len(body.checks)
       IN  IF Falsy(actualSubjectId)
           THEN /\ response' = Json([results |-> <<>>, reason |-> "unauthenticated"], 401)
                /\ calls' = <<>>
                /\ promises' = <<>>
                /\ caught' = undefined
                /\ pc' = "idle"
           ELSE IF n = 0
           THEN \* Promise.all([]) resolves with []
                /\ response' = BulkResults(<<>>)
                /\ calls' = <<>>
                /\ promises' = <<>>
                /\ caught' = undefined
                /\ pc' = "idle"
           ELSE IF fromJsonThrows
           THEN \* every item's request creation throws: all promises are
                \* rejected, Promise.all rejects with the first
                /\ promises' = [i \in 1..n |-> Rejected(StructMessage)]
                /\ response' = BulkFailed(StructMessage)
                /\ calls' = <<>>
                /\ caught' = StructMessage
                /\ pc' = "idle"
           ELSE /\ promises' = [i \in 1..n |-> Pending]
                /\ caught' = undefined
                /\ calls' = [i \in 1..n |->
                               CheckPermissionRequest(body.checks[i], body, actualSubjectId)]
                /\ response' = NoResponse
                /\ pc' = "checkBulk"

\* the remote check of item i settles.  Promise.all rejects on the first
\* rejection and resolves when every promise is fulfilled; an answer that
\* arrives after the handler returned settles its promise and nothing else
BulkSettles(i, outcome) ==
    /\ req.endpoint = "checkBulk"
    /\ i \in DOMAIN promises
    /\ promises[i] = Pending
    /\ replies' = Append(replies, [index |-> i, outcome |-> outcome])
    /\ promises' = [promises EXCEPT ![i] = BulkItemSettled(req.body.checks[i], outcome)]
    /\ IF pc # "checkBulk"
       THEN UNCHANGED <<response, caught, pc>>
       ELSE IF promises'[i].state = "rejected"
       THEN /\ response' = BulkFailed(promises'[i].reason)
            /\ caught' = promises'[i].reason
            /\ pc' = "idle"
       ELSE IF \A j \in DOMAIN promises : promises'[j].state = "fulfilled"
       THEN /\ response' = BulkResults(promises')
            /\ pc' = "idle"
            /\ UNCHANGED caught
       ELSE UNCHANGED <<response, caught, pc>>
    /\ UNCHANGED <<options, hooks, store, snapshot, ledger, req, calls, streamed, resourceIds>>

NextBulk ==
    \/ \E session \in Sessions, body \in BulkBodies :
           \E fromJsonThrows \in FromJsonOutcomes(body.context) :
               spicedbCheckBulk(session, body, fromJsonThrows)
    \/ \E i \in 1..MaxChecks, outcome \in CheckOutcomes : BulkSettles(i, outcome)
    \/ Returned

SpecBulk == Init /\ [][NextBulk]_vars

-----------------------------------------------------------------------------
(* POST /spicedb/lookup-resources *)

LookupBodies ==
    [resourceType : ResourceTypes, permission : Permissions,
     subjectId : SubjectIdArgs, subjectType : SubjectTypes, context : ContextArgs]

\* variant: the request leaves the consistency to the engine's default
LookupResourcesRequestDefaultConsistency(body, actualSubjectId) ==
    [rpc                |-> "lookupResources",
     resourceObjectType |-> body.resourceType,
     permission         |-> body.permission,
     subject            |-> [objectType |-> body.subjectType,
                             objectId |-> namespace(actualSubjectId)],
     consistency        |-> undefined,
     context            |-> ContextStruct(body.context)]

\* v1.LookupResourcesRequest.create({...})
LookupResourcesRequest(body, actualSubjectId) ==
    [rpc                |-> "lookupResources",
     resourceObjectType |-> body.resourceType,
     permission         |-> body.permission,
     subject            |-> [objectType |-> body.subjectType,
                             objectId |-> namespace(actualSubjectId)],
     consistency        |-> "fullyConsistent",
     context            |-> ContextStruct(body.context)]

\* variant: the prefix length is cut off without looking at the id
StripNamespaceAlways(rawId) ==
    IF ~Falsy(options.namespace)
    THEN Slice(rawId, Len(options.namespace))
    ELSE rawId

\* options.namespace && rawId.startsWith(options.namespace)
\*     ? rawId.slice(options.namespace.length) : rawId
StripNamespace(rawId) ==
    IF ~Falsy(options.namespace) /\ StartsWith(rawId, options.namespace)
    THEN Slice(rawId, Len(options.namespace))
    ELSE rawId

\* return ctx.json({ resourceIds })
LookupResults(ids) == Json([resourceIds |-> ids], 200)

\* variant: the catch block hands back what the loop had collected
LookupFailedPartial(message) ==
    Json([resourceIds |-> resourceIds, error |-> message], 500)

\* the catch block of the handler
LookupFailed(message) == Json([resourceIds |-> <<>>, error |-> message], 500)

\* the handler up to the awaited stream
spicedbLookupResources(session, body, fromJsonThrows) ==
    /\ pc = "idle"
    /\ req = NoRequest
    /\ req' = [endpoint |-> "lookupResources", session |-> session, body |-> body]
    /\ UNCHANGED <<options, hooks, store, snapshot, ledger, promises, streamed,
                   resourceIds, replies>>
    /\ LET actualSubjectId == ActualSubjectId(session, body)
       IN  IF Falsy(actualSubjectId)
           THEN /\ response' = Json([resourceIds |-> <<>>, reason |-> "unauthenticated"], 401)
                /\ calls' = <<>>
                /\ caught' = undefined
                /\ pc' = "idle"
           ELSE IF fromJsonThrows
           THEN /\ response' = LookupFailed(StructMessage)
                /\ calls' = <<>>
                /\ caught' = StructMessage
                /\ pc' = "idle"
           ELSE /\ response' = NoResponse
                /\ caught' = undefined
                /\ calls' = <<LookupResourcesRequest(body, actualSubjectId)>>
                /\ pc' = "lookupResources"

\* one pass of the for-await loop: the next streamed response is pushed
LookupNext(rawId) ==
    /\ pc = "lookupResources"
    /\ Len(streamed) < MaxStream
    /\ streamed' = Append(streamed, rawId)
    /\ resourceIds' = Append(resourceIds, StripNamespace(rawId))
    /\ UNCHANGED <<options, hooks, store, snapshot, ledger, pc, req, calls, promises,
                   replies, caught, response>>

\* the stream ends and the handler returns what it collected
LookupEnds ==
    /\ pc = "lookupResources"
    /\ response' = LookupResults(resourceIds)
    /\ pc' = "idle"
    /\ UNCHANGED <<options, hooks, store, snapshot, ledger, req, calls, promises,
                   streamed, resourceIds,
                   replies, caught>>

\* the call or the stream fails and the catch block returns
LookupFails(message) ==
    /\ pc = "lookupResources"
    /\ replies' = Append(replies, [index |-> 1,
                                    outcome |-> [ok |-> FALSE, message |-> message]])
    /\ response' = LookupFailed(message)
    /\ caught' = message
    /\ pc' = "idle"
    /\ UNCHANGED <<options, hooks, store, snapshot, ledger, req, calls, promises,
                   streamed, resourceIds>>

NextLookup ==
    \/ \E session \in Sessions, body \in LookupBodies :
           \E fromJsonThrows \in FromJsonOutcomes(body.context) :
               spicedbLookupResources(session, body, fromJsonThrows)
    \/ \E rawId \in WireIds : LookupNext(rawId)
    \/ LookupEnds
    \/ \E message \in Messages : LookupFails(message)
    \/ Returned

SpecLookup == Init /\ [][NextLookup]_vars

\* the three read endpoints together
NextRead ==
    \/ \E session \in Sessions, body \in CheckBodies :
           \E fromJsonThrows \in FromJsonOutcomes(body.context) :
               spicedbCheck(session, body, fromJsonThrows)
    \/ \E outcome \in CheckOutcomes : CheckSettles(outcome)
    \/ \E session \in Sessions, body \in BulkBodies :
           \E fromJsonThrows \in FromJsonOutcomes(body.context) :
               spicedbCheckBulk(session, body, fromJsonThrows)
    \/ \E i \in 1..MaxChecks, outcome \in CheckOutcomes : BulkSettles(i, outcome)
    \/ \E session \in Sessions, body \in LookupBodies :
           \E fromJsonThrows \in FromJsonOutcomes(body.context) :
               spicedbLookupResources(session, body, fromJsonThrows)
    \/ \E rawId \in WireIds : LookupNext(rawId)
    \/ LookupEnds
    \/ \E message \in Messages : LookupFails(message)
    \/ Returned

SpecRead == Init /\ [][NextRead]_vars

-----------------------------------------------------------------------------
(* POST /spicedb/write-relationship and /spicedb/delete-relationship *)

MutationBodies ==
    [resource : [type : {"agent"}, id : ResourceIds],
     relation : Relations,
     subject  : [type : {"user"}, id : {"alice", "bob"}]]

\* the options object handed to createAuthEndpoint for both mutation endpoints
MutationEndpointOptions == [method |-> "POST", requireAdmin |-> TRUE]

\* v1.Relationship.create({...}) with both ids namespaced
Relationship(resource, relation, subject) ==
    [resource |-> [objectType |-> resource.type, objectId |-> namespace(resource.id)],
     relation |-> relation,
     subject  |-> [objectType |-> subject.type, objectId |-> namespace(subject.id)]]

\* v1.WriteRelationshipsRequest.create({updates: [{operation, relationship}]})
WriteRelationshipsRequest(operation, resource, relation, subject) ==
    [rpc     |-> "writeRelationships",
     updates |-> <<[operation    |-> operation,
                    relationship |-> Relationship(resource, relation, subject)]>>]

\* variant: the write is sent as a CREATE
writeRelationshipCreate(resource, relation, subject) ==
    calls' = Append(calls, WriteRelationshipsRequest("CREATE", resource, relation, subject))

\* the helper writeRelationship up to its await
writeRelationship(resource, relation, subject) ==
    calls' = Append(calls, WriteRelationshipsRequest("TOUCH", resource, relation, subject))

\* the helper deleteRelationship up to its await
deleteRelationship(resource, relation, subject) ==
    calls' = Append(calls, WriteRelationshipsRequest("DELETE", resource, relation, subject))

\* what awaiting promiseClient.writeRelationships delivers
MutationOutcomes == [ok : {TRUE}] \cup [ok : {FALSE}, message : Messages]

\* the engine applies one update: TOUCH upserts (as does a CREATE that is
\* accepted), DELETE removes
ApplyUpdate(tuples, update) ==
    IF update.operation \in {"TOUCH", "CREATE"}
    THEN tuples \cup {update.relationship}
    ELSE tuples \ {update.relationship}

\* history: the write of body through this plugin was answered with success
Acknowledge(entries, body) ==
    entries \cup {[namespace    |-> options.namespace,
                   body         |-> body,
                   relationship |-> Relationship(body.resource, body.relation,
                                                 body.subject)]}

\* history: a delete of the tuple has been sent to the engine
Unacknowledge(entries, relationship) ==
    {e \in entries : e.relationship # relationship}

\* variant: the handler answers success without looking at the outcome
MutationResultOptimistic(outcome) == Json([success |-> TRUE], 200)

\* the handler's result once the awaited mutation has settled
MutationResult(outcome) ==
    IF outcome.ok
    THEN Json([success |-> TRUE], 200)
    ELSE Json([success |-> FALSE, error |-> outcome.message], 500)

\* the write handler up to the await inside writeRelationship; the handler
\* reads nothing of the session, and nothing of the endpoint's options
spicedbWriteRelationship(session, body) ==
    /\ pc = "idle"
    /\ req = NoRequest
    /\ req' = [endpoint |-> "writeRelationship", session |-> session, body |-> body]
    /\ writeRelationship(body.resource, body.relation, body.subject)
    /\ response' = NoResponse
    /\ pc' = "writeRelationship"
    /\ UNCHANGED <<options, hooks, store, snapshot, ledger, promises, streamed,
                   resourceIds, replies, caught>>

\* the delete handler up to the await inside deleteRelationship
spicedbDeleteRelationship(session, body) ==
    /\ pc = "idle"
    /\ req = NoRequest
    /\ req' = [endpoint |-> "deleteRelationship", session |-> session, body |-> body]
    /\ deleteRelationship(body.resource, body.relation, body.subject)
    /\ response' = NoResponse
    /\ pc' = "deleteRelationship"
    /\ ledger' = Unacknowledge(ledger, Relationship(body.resource, body.relation, body.subject))
    /\ UNCHANGED <<options, hooks, store, snapshot, promises, streamed, resourceIds,
                   replies, caught>>

\* the awaited writeRelationships settles: the engine has applied the update,
\* or the call is rejected and the store is as it was
MutationSettles(outcome) ==
    /\ pc \in {"writeRelationship", "deleteRelationship"}
    /\ replies' = Append(replies, [index |-> Len(calls), outcome |-> outcome])
    /\ store' = IF outcome.ok
                THEN ApplyUpdate(store, calls[Len(calls)].updates[1])
                ELSE store
    /\ ledger' = IF outcome.ok /\ pc = "writeRelationship"
                 THEN Acknowledge(ledger, req.body)
                 ELSE ledger
    /\ caught' = IF outcome.ok THEN undefined ELSE outcome.message
    /\ response' = MutationResult(outcome)
    /\ pc' = "idle"
    /\ UNCHANGED <<options, hooks, snapshot, req, calls, promises, streamed, resourceIds>>

NextMutation ==
    \/ \E session \in MutationSessions, body \in MutationBodies :
           spicedbWriteRelationship(session, body)
    \/ \E session \in MutationSessions, body \in MutationBodies :
           spicedbDeleteRelationship(session, body)
    \/ \E outcome \in MutationOutcomes : MutationSettles(outcome)
    \/ Returned

SpecMutation == Init /\ [][NextMutation]_vars

-----------------------------------------------------------------------------
(* The remote engine behind the lookup stream: writes followed by lookups *)

\* the tuple resource#relation@subject is among tuples
Related(tuples, resource, relation, subject) ==
    [resource |-> resource, relation |-> relation, subject |-> subject] \in tuples

\* definition organization { relation member: user  relation admin: user
\*     permission view = member + admin
\*     permission manage = admin }
OrganizationPermits(tuples, organization, permission, subject) ==
    CASE permission = "view" ->
             \/ Related(tuples, organization, "member", subject)
             \/ Related(tuples, organization, "admin", subject)
      [] permission = "manage" -> Related(tuples, organization, "admin", subject)
      [] OTHER -> FALSE

\* definition department { relation organization: organization
\*     relation member: user  relation manager: user
\*     permission view = member + manager + organization->admin
\*     permission manage = manager + organization->admin }
DepartmentPermits(tuples, department, permission, subject) ==
    LET organizationAdmin ==
            \E t \in tuples : /\ t.resource = department
                              /\ t.relation = "organization"
                              /\ Related(tuples, t.subject, "admin", subject)
    IN  CASE permission = "view" ->
                 \/ Related(tuples, department, "member", subject)
                 \/ Related(tuples, department, "manager", subject)
                 \/ organizationAdmin
          [] permission = "manage" ->
                 Related(tuples, department, "manager", subject) \/ organizationAdmin
          [] OTHER -> FALSE

\* definition agent { relation department: department  relation owner: user
\*     permission view = department->member + owner
\*     permission edit = owner + department->manage
\*     permission delete = owner }
AgentPermits(tuples, agent, permission, subject) ==
    LET departments == {t.subject : t \in {u \in tuples : /\ u.resource = agent
                                                          /\ u.relation = "department"}}
    IN  CASE permission = "view" ->
                 \/ Related(tuples, agent, "owner", subject)
                 \/ \E d \in departments : Related(tuples, d, "member", subject)
          [] permission = "edit" ->
                 \/ Related(tuples, agent, "owner", subject)
                 \/ \E d \in departments : DepartmentPermits(tuples, d, "manage", subject)
          [] permission = "delete" -> Related(tuples, agent, "owner", subject)
          [] OTHER -> FALSE

\* the schema's answer for one resource, permission and subject
Permits(tuples, resource, permission, subject) ==
    CASE resource.objectType = "agent" ->
             AgentPermits(tuples, resource, permission, subject)
      [] resource.objectType = "department" ->
             DepartmentPermits(tuples, resource, permission, subject)
      [] resource.objectType = "organization" ->
             OrganizationPermits(tuples, resource, permission, subject)
      [] OTHER -> FALSE

\* the revisions the engine may evaluate a request at: the newest one when
\* the request asks for full consistency, otherwise also a cached earlier one
EngineViews(request) ==
    IF request.consistency = "fullyConsistent" THEN {store} ELSE {store, snapshot}

\* the object ids a lookup request matches at one revision
Matches(view, request) ==
    {t.resource.objectId :
        t \in {u \in view : /\ u.resource.objectType = request.resourceObjectType
                            /\ Permits(view, u.resource, request.permission,
                                       request.subject)}}

\* the ids streamed so far
Streamed == {streamed[i] : i \in 1..Len(streamed)}

\* the engine streams the next match of the revision it evaluates the
\* lookup at
EngineLookupNext ==
    /\ pc = "lookupResources"
    /\ \E view \in EngineViews(calls[1]) :
           /\ Streamed \subseteq Matches(view, calls[1])
           /\ \E rawId \in Matches(view, calls[1]) \ Streamed : LookupNext(rawId)

\* the engine ends the stream once every match of that revision is out
EngineLookupEnds ==
    /\ pc = "lookupResources"
    /\ \E view \in EngineViews(calls[1]) : Streamed = Matches(view, calls[1])
    /\ LookupEnds

\* the engine's cached revision catches up with the newest one
SnapshotAdvances ==
    /\ pc = "idle"
    /\ req = NoRequest
    /\ snapshot # store
    /\ snapshot' = store
    /\ UNCHANGED <<options, hooks, store, ledger, pc, req, calls, promises, streamed,
                   resourceIds, replies, caught, response>>

\* the administrator whose mutations feed the engine
Administrators == {s \in MutationSessions : s.present /\ s.user.role = "admin"}

\* lookups that carry no caveat context
PlainLookupBodies == {b \in LookupBodies : b.context = undefined}

NextReadYourWrites ==
    \/ \E session \in Administrators, body \in MutationBodies :
           spicedbWriteRelationship(session, body)
    \/ \E session \in Administrators, body \in MutationBodies :
           spicedbDeleteRelationship(session, body)
    \/ \E outcome \in MutationOutcomes : MutationSettles(outcome)
    \/ SnapshotAdvances
    \/ \E session \in Sessions, body \in PlainLookupBodies :
           spicedbLookupResources(session, body, FALSE)
    \/ EngineLookupNext
    \/ EngineLookupEnds
    \/ \E message \in Messages : LookupFails(message)
    \/ Returned

SpecReadYourWrites == Init /\ [][NextReadYourWrites]_vars

-----------------------------------------------------------------------------
(* Lookups whose stream holds ids this plugin namespaced itself *)

\* prefixes, among them one that is a prefix of another and a one-letter one
CodecNamespaces == {undefined, "", "t_", "t_t_", "a"}

\* raw ids, among them the empty one and ids that begin like a prefix
RawIds == {"", "1", "t_", "t_1", "a", "t_t_"}

InitCodec ==
    /\ options \in [namespace : CodecNamespaces, syncOrganizations : {FALSE},
                     relationships : {<<>>}]
    /\ Constructed

NextCodec ==
    \/ \E session \in Sessions, body \in PlainLookupBodies :
           spicedbLookupResources(session, body, FALSE)
    \/ \E r \in RawIds : LookupNext(namespace(r))
    \/ LookupEnds
    \/ \E message \in Messages : LookupFails(message)
    \/ Returned

SpecCodec == InitCodec /\ [][NextCodec]_vars

-----------------------------------------------------------------------------
(* The five endpoints of one plugin instance *)

\* the one relationship the mutation endpoints are asked about here
SampleMutationBodies ==
    {b \in MutationBodies : b.resource.id = "1" /\ b.subject.id = "bob"}

\* checks and batches that carry no caveat context
PlainCheckBodies == {b \in CheckBodies : b.context = undefined}
PlainBulkBodies  == {b \in BulkBodies : b.context = undefined}

NextPlugin ==
    \/ \E session \in Sessions, body \in PlainCheckBodies :
           spicedbCheck(session, body, FALSE)
    \/ \E outcome \in CheckOutcomes : CheckSettles(outcome)
    \/ \E session \in Sessions, body \in PlainBulkBodies :
           spicedbCheckBulk(session, body, FALSE)
    \/ \E i \in 1..MaxChecks, outcome \in CheckOutcomes : BulkSettles(i, outcome)
    \/ \E session \in Sessions, body \in PlainLookupBodies :
           spicedbLookupResources(session, body, FALSE)
    \/ \E rawId \in WireIds : LookupNext(rawId)
    \/ LookupEnds
    \/ \E message \in Messages : LookupFails(message)
    \/ \E session \in Administrators, body \in SampleMutationBodies :
           spicedbWriteRelationship(session, body)
    \/ \E session \in Administrators, body \in SampleMutationBodies :
           spicedbDeleteRelationship(session, body)
    \/ \E outcome \in MutationOutcomes : MutationSettles(outcome)
    \/ Returned

SpecPlugin == Init /\ [][NextPlugin]_vars

-----------------------------------------------------------------------------
(* Two tenants: plugin instances with different namespaces on one engine *)

\* namespace: `tenant_${tenantId}_` for the tenant ids "a" and "a_b"
TenantNamespaces == {"tenant_a_", "tenant_a_b_"}

TenantOptions ==
    [namespace : TenantNamespaces, syncOrganizations : {FALSE}, relationships : {<<>>}]

\* the relationships the tenants' administrators write
TenantMutationBodies ==
    {[resource |-> [type |-> "agent", id |-> "1"], relation |-> "owner",
      subject |-> [type |-> "user", id |-> "bob"]],
     [resource |-> [type |-> "agent", id |-> "b_1"], relation |-> "owner",
      subject |-> [type |-> "user", id |-> "b_bob"]]}

\* the checks and lookups the tenants' users ask for
TenantCheckBodies ==
    [resourceType : {"agent"}, resourceId : {"1", "b_1"}, permission : Permissions,
     subjectId : {"bob", "b_bob"}, subjectType : {"user"}, context : {undefined}]

TenantLookupBodies ==
    [resourceType : {"agent"}, permission : Permissions,
     subjectId : {"bob", "b_bob"}, subjectType : {"user"}, context : {undefined}]

\* a signed-in user of either tenant
SignedIn == {s \in Sessions : s.present}

\* spicedb(opts): the instance built from opts serves the next request
spicedb(opts) ==
    /\ pc = "idle"
    /\ req = NoRequest
    /\ opts # options
    /\ options' = opts
    /\ hooks' = BuildHooks(opts)
    /\ UNCHANGED <<store, snapshot, ledger, pc, req, calls, promises, streamed,
                   resourceIds, replies, caught, response>>

\* whether the subject of a check request holds the permission at a revision
Holds(view, request) ==
    Permits(view, request.resource, request.permission, request.subject)

\* the engine answers the check from a revision it may evaluate it at
EngineCheckSettles ==
    /\ pc = "check"
    /\ \E view \in EngineViews(calls[1]) :
           CheckSettles([ok |-> TRUE,
                         permissionship |-> IF Holds(view, calls[1])
                                            THEN "HAS_PERMISSION"
                                            ELSE "NO_PERMISSION"])

InitTenants ==
    /\ options \in TenantOptions
    /\ Constructed

NextTenants ==
    \/ \E opts \in TenantOptions : spicedb(opts)
    \/ \E session \in Administrators, body \in TenantMutationBodies :
           spicedbWriteRelationship(session, body)
    \/ \E outcome \in MutationOutcomes : MutationSettles(outcome)
    \/ \E session \in SignedIn, body \in TenantCheckBodies :
           spicedbCheck(session, body, FALSE)
    \/ EngineCheckSettles
    \/ \E session \in SignedIn, body \in TenantLookupBodies :
           spicedbLookupResources(session, body, FALSE)
    \/ EngineLookupNext
    \/ EngineLookupEnds
    \/ Returned

SpecTenants == InitTenants /\ [][NextTenants]_vars

-----------------------------------------------------------------------------
(* The body schema in front of the mutation handlers *)

\* a well-formed body and the bodies that differ from it in one field, which
\* is then empty or missing
LooseMutationBodies ==
    LET well == [resource |-> [type |-> "agent", id |-> "1"], relation |-> "owner",
                 subject |-> [type |-> "user", id |-> "bob"]]
    IN  {well}
            \cup {[well EXCEPT !.resource.type = v] : v \in {"", undefined}}
            \cup {[well EXCEPT !.resource.id = v] : v \in {"", undefined}}
            \cup {[well EXCEPT !.relation = v] : v \in {"", undefined}}
            \cup {[well EXCEPT !.subject.type = v] : v \in {"", undefined}}
            \cup {[well EXCEPT !.subject.id = v] : v \in {"", undefined}}

\* z.object({resource: z.object({type: z.string(), id: z.string()}),
\*           relation: z.string(),
\*           subject: z.object({type: z.string(), id: z.string()})})
MutationSchema(body) ==
    undefined \notin {body.resource.type, body.resource.id, body.relation,
                      body.subject.type, body.subject.id}

\* the endpoint answers a body its schema refuses without entering the handler
SchemaRejects(endpoint, session, body) ==
    /\ pc = "idle"
    /\ req = NoRequest
    /\ req' = [endpoint |-> endpoint, session |-> session, body |-> body]
    /\ response' = Json([message |-> "Invalid body parameters"], 400)
    /\ UNCHANGED <<options, hooks, store, snapshot, ledger, pc, calls, promises,
                   streamed, resourceIds, replies, caught>>

\* POST /spicedb/write-relationship: the schema, then the handler
postWriteRelationship(session, body) ==
    IF MutationSchema(body)
    THEN spicedbWriteRelationship(session, body)
    ELSE SchemaRejects("writeRelationship", session, body)

\* POST /spicedb/delete-relationship: the schema, then the handler
postDeleteRelationship(session, body) ==
    IF MutationSchema(body)
    THEN spicedbDeleteRelationship(session, body)
    ELSE SchemaRejects("deleteRelationship", session, body)

NextValidation ==
    \/ \E session \in Administrators, body \in LooseMutationBodies :
           postWriteRelationship(session, body)
    \/ \E session \in Administrators, body \in LooseMutationBodies :
           postDeleteRelationship(session, body)
    \/ \E outcome \in MutationOutcomes : MutationSettles(outcome)
    \/ Returned

SpecValidation == Init /\ [][NextValidation]_vars

-----------------------------------------------------------------------------
(* Event dispatch: createEventEmitter(plugin) and the handlers in hooks *)

\* the relationship mappings an application may configure
AgentOwner ==
    [on |-> "agent.created", resourceType |-> "agent", relation |-> "owner",
     subjectType |-> "user", resourceId |-> "agentId", subjectId |-> "createdBy"]
AgentDepartment ==
    [on |-> "agent.created", resourceType |-> "agent", relation |-> "department",
     subjectType |-> "department", resourceId |-> "agentId",
     subjectId |-> "departmentId"]
DepartmentMember ==
    [on |-> "department.member.added", resourceType |-> "department",
     relation |-> "member", subjectType |-> "user", resourceId |-> "departmentId",
     subjectId |-> "userId"]
OrganizationAdmin ==
    [on |-> "organization.addMember", resourceType |-> "organization",
     relation |-> "admin", subjectType |-> "user", resourceId |-> "organizationId",
     subjectId |-> "userId"]

MappingChoices == {AgentOwner, AgentDepartment, DepartmentMember, OrganizationAdmin}

\* the lists of at most n mappings
RECURSIVE MappingsUpTo(_)
MappingsUpTo(n) ==
    IF n = 0 THEN {<<>>}
    ELSE MappingsUpTo(n - 1)
             \cup {Append(ms, m) : ms \in {l \in MappingsUpTo(n - 1) : Len(l) = n - 1},
                                   m \in MappingChoices}

EventNames ==
    {"organization.addMember", "organization.removeMember", "agent.created",
     "department.member.added", "agent.deleted", "constructor"}

\* what reading a value off the event gives when the read raises
Thrown == "<throws>"

\* an event whose reads all succeed, the events that differ from it in one
\* read (empty, missing, null, or raising), and no event object at all
Payloads ==
    LET full == [agentId |-> "1", createdBy |-> "bob", departmentId |-> "eng",
                 organizationId |-> "acme", userId |-> "bob"]
    IN  {full, null}
            \cup {[full EXCEPT ![f] = v] : f \in DOMAIN full,
                                           v \in {"", undefined, nil, Thrown}}

\* mapping.resourceId(event), mapping.subjectId(event), event.organizationId
Extract(field, data) == IF data = null THEN Thrown ELSE data[field]

\* how far a handler gets before its first await
Caught  == [state |-> "caught"]
Skipped == [state |-> "skipped"]
Issued(operation, resource, relation, subject) ==
    [state   |-> "issued",
     request |-> WriteRelationshipsRequest(operation, resource, relation, subject),
     body    |-> [resource |-> resource, relation |-> relation, subject |-> subject]]

\* variant: the ids are not tested before the write
MappingRunUnchecked(mapping, data) ==
    LET resourceId == Extract(mapping.resourceId, data)
        subjectId  == Extract(mapping.subjectId, data)
    IN  IF resourceId = Thrown \/ subjectId = Thrown THEN Caught
        ELSE Issued("TOUCH", [type |-> mapping.resourceType, id |-> resourceId],
                    mapping.relation, [type |-> mapping.subjectType, id |-> subjectId])

\* variant: a mapping registered under a name that speaks of removal deletes
MappingRunByEventName(mapping, data) ==
    LET resourceId == Extract(mapping.resourceId, data)
        subjectId  == Extract(mapping.subjectId, data)
        operation  == IF mapping.on \in {"agent.deleted", "organization.removeMember"}
                      THEN "DELETE" ELSE "TOUCH"
    IN  IF resourceId = Thrown \/ subjectId = Thrown THEN Caught
        ELSE IF Falsy(resourceId) \/ Falsy(subjectId) THEN Skipped
        ELSE Issued(operation, [type |-> mapping.resourceType, id |-> resourceId],
                    mapping.relation, [type |-> mapping.subjectType, id |-> subjectId])

\* the handler pushed for a mapping, up to its first await
MappingRun(mapping, data) ==
    LET resourceId == Extract(mapping.resourceId, data)
        subjectId  == Extract(mapping.subjectId, data)
    IN  IF resourceId = Thrown \/ subjectId = Thrown THEN Caught
        ELSE IF Falsy(resourceId) \/ Falsy(subjectId) THEN Skipped
        ELSE Issued("TOUCH", [type |-> mapping.resourceType, id |-> resourceId],
                    mapping.relation, [type |-> mapping.subjectType, id |-> subjectId])

\* a built-in organization handler, up to its first await
BuiltinRun(operation, data) ==
    LET organizationId == Extract("organizationId", data)
        userId         == Extract("userId", data)
    IN  IF organizationId = Thrown \/ userId = Thrown THEN Caught
        ELSE Issued(operation, [type |-> "organization", id |-> organizationId],
                    "member", [type |-> "user", id |-> userId])

\* fn(data) up to its first await
HandlerRun(handler, data) ==
    IF handler.kind = "mapping" THEN MappingRun(handler.mapping, data)
    ELSE IF handler.kind = "addMember" THEN BuiltinRun("TOUCH", data)
    ELSE BuiltinRun("DELETE", data)

\* variant: a handler that raises keeps the handlers after it from running
RunAllUntilThrow(handlers, data) ==
    [i \in 1..Len(handlers) |->
        IF \E j \in 1..(i - 1) : HandlerRun(handlers[j], data) = Caught
        THEN Skipped
        ELSE HandlerRun(handlers[i], data)]

\* eventHooks.map((fn) => fn(data)): every handler runs to its first await
RunAll(handlers, data) ==
    [i \in 1..Len(handlers) |-> HandlerRun(handlers[i], data)]

\* eventHooks && Array.isArray(eventHooks), for eventHooks = plugin.hooks?.[eventName];
\* a name hooks has no own entry for yields undefined or, for a name like
\* "constructor", an inherited value that is no array
HasHooks(eventName) == eventName \in DOMAIN hooks

\* the handlers dispatched to, an empty list where HasHooks fails
EventHooks(eventName) ==
    IF HasHooks(eventName) THEN hooks[eventName] ELSE <<>>

IsIssued(run) == run.state = "issued"

\* the promise of a handler that got as far as `run`: a handler that skipped
\* or caught an exception has returned
HandlerPromise(run) == IF IsIssued(run) THEN Pending ELSE Fulfilled(undefined)

\* variant: the handler lets the failure of its awaited write out
HandlerSettledUncaught(outcome) ==
    IF outcome.ok THEN Fulfilled(undefined) ELSE Rejected(outcome.message)

\* the promise of a handler whose awaited write settled: success is logged,
\* a failure is caught and logged
HandlerSettled(outcome) == Fulfilled(undefined)

\* variant: a failed write is sent once more
CallsAfterRetry(cs, request, outcome) ==
    IF outcome.ok THEN cs ELSE Append(cs, request)

\* the remote calls once a handler's awaited write settled: neither the
\* helper nor the catch block sends anything again
CallsAfter(cs, request, outcome) == cs

\* the emitter's promise has resolved
Resolved == [kind |-> "resolved"]

\* variant: an event without handlers is an error
NoHooksResultThrows == Throw("No hooks registered")

\* the else branch of emitEvent: a warning, nothing else
NoHooksResult == Resolved

\* variant: the emitter does not wait for its handlers
EmitOutcomeEager(ps) == Resolved

\* await Promise.all(ps) and the end of emitEvent: rejected with the reason
\* of a rejected promise, pending while one is pending, resolved otherwise
EmitOutcome(ps) ==
    IF \E i \in 1..Len(ps) : ps[i].state = "rejected"
    THEN Throw(ps[CHOOSE i \in 1..Len(ps) : ps[i].state = "rejected"].reason)
    ELSE IF \E i \in 1..Len(ps) : ps[i] = Pending
    THEN NoResponse
    ELSE Resolved

\* variant: each handler is awaited before the next one is invoked, so that
\* only the first remote call is out when the emitter first waits
InvokedBeforeWaitingOneByOne(runs) ==
    LET issued == SelectSeq(runs, IsIssued)
    IN  IF issued = <<>> THEN <<>> ELSE <<issued[1]>>

\* eventHooks.map((fn) => fn(data)) is evaluated before Promise.all waits:
\* the handlers whose remote call is out when the emitter first waits
InvokedBeforeWaiting(runs) == SelectSeq(runs, IsIssued)

\* emitEvent(eventName, data) up to `await Promise.all(...)`
emitEvent(eventName, data) ==
    /\ pc = "idle"
    /\ req = NoRequest
    /\ req' = [endpoint |-> "emitEvent", eventName |-> eventName, data |-> data]
    /\ LET runs   == RunAll(EventHooks(eventName), data)
           issued == InvokedBeforeWaiting(runs)
       IN  /\ calls' = [k \in 1..Len(issued) |-> issued[k].request]
           /\ promises' = [i \in 1..Len(runs) |-> HandlerPromise(runs[i])]
           /\ ledger' = {e \in ledger :
                            \A k \in 1..Len(issued) :
                                \/ issued[k].request.updates[1].operation # "DELETE"
                                \/ issued[k].request.updates[1].relationship
                                       # e.relationship}
    /\ response' = IF HasHooks(eventName) THEN EmitOutcome(promises') ELSE NoHooksResult
    /\ pc' = IF response' = NoResponse THEN "emitEvent" ELSE "idle"
    /\ UNCHANGED <<options, hooks, store, snapshot, streamed, resourceIds, replies, caught>>

\* variant: a handler whose write failed registers itself again, to be run
\* once more by the next dispatch of its event
HooksAfterRequeue(h, eventName, i, outcome) ==
    IF outcome.ok THEN h ELSE [h EXCEPT ![eventName] = Append(@, h[eventName][i])]

\* the handler lists once handler i of the event has had its answer: the
\* handler logs, in its catch block too, and touches nothing else
HooksAfter(h, eventName, i, outcome) == h

\* the remote mutation awaited by handler i settles and the handler returns;
\* the emitter goes on once Promise.all has settled
HandlerSettles(i, outcome) ==
    /\ pc = "emitEvent"
    /\ i \in 1..Len(promises)
    /\ promises[i] = Pending
    /\ LET run == RunAll(EventHooks(req.eventName), req.data)[i]
       IN  /\ store' = IF outcome.ok
                       THEN ApplyUpdate(store, run.request.updates[1])
                       ELSE store
           /\ ledger' = IF outcome.ok /\ run.request.updates[1].operation = "TOUCH"
                        THEN Acknowledge(ledger, run.body)
                        ELSE ledger
           /\ calls' = CallsAfter(calls, run.request, outcome)
    /\ replies' = Append(replies, [index |-> i, outcome |-> outcome])
    /\ promises' = [promises EXCEPT ![i] = HandlerSettled(outcome)]
    /\ hooks' = HooksAfter(hooks, req.eventName, i, outcome)
    /\ response' = EmitOutcome(promises')
    /\ pc' = IF response' = NoResponse THEN "emitEvent" ELSE "idle"
    /\ UNCHANGED <<options, snapshot, req, streamed, resourceIds, caught>>

\* a plugin configured with event syncing
InitDispatch ==
    /\ options \in [namespace : {undefined, "ns_"}, syncOrganizations : BOOLEAN,
                     relationships : MappingsUpTo(MaxMappings)]
    /\ Constructed

\* one dispatch
NextDispatch ==
    \/ \E eventName \in EventNames, data \in Payloads : emitEvent(eventName, data)
    \/ \E i \in 1..(MaxMappings + 1), outcome \in MutationOutcomes :
           HandlerSettles(i, outcome)

SpecDispatch == InitDispatch /\ [][NextDispatch]_vars

\* every remote call is answered in the end
RemoteAnswers ==
    WF_vars(\E i \in 1..(MaxMappings + 1), outcome \in MutationOutcomes :
                HandlerSettles(i, outcome))

\* events for which a handler writes, skips or raises
SamplePayloads ==
    {data \in Payloads :
        \/ data = null
        \/ \A f \in DOMAIN data \ {"createdBy"} : data[f] \notin {"", undefined, nil, Thrown}}

NextDispatchLive ==
    \/ \E eventName \in EventNames, data \in SamplePayloads : emitEvent(eventName, data)
    \/ \E i \in 1..(MaxMappings + 1), outcome \in MutationOutcomes :
           HandlerSettles(i, outcome)

\* a namespaced plugin that syncs organizations and mappings
InitDispatchLive ==
    /\ options \in [namespace : {"ns_"}, syncOrganizations : {TRUE},
                     relationships : MappingsUpTo(MaxMappings)]
    /\ Constructed

\* one dispatch against an engine that answers every call
SpecDispatchLive == InitDispatchLive /\ [][NextDispatchLive]_vars /\ RemoteAnswers

-----------------------------------------------------------------------------
(* Dispatches awaited one after the other *)

\* events whose reads succeed, but for the agent's creator, whose read may raise
FailingPayloads ==
    {data \in SamplePayloads : data # null /\ data.createdBy \notin {"", undefined, nil}}

\* one event per name, its reads all succeeding
FullPayloads == {data \in FailingPayloads : data.createdBy # Thrown}

\* any number of dispatches, each awaited before the next; remote writes
\* succeed or fail
NextDispatches ==
    \/ \E eventName \in EventNames, data \in FailingPayloads : emitEvent(eventName, data)
    \/ \E i \in 1..(MaxMappings + 1), outcome \in MutationOutcomes :
           HandlerSettles(i, outcome)
    \/ Returned

SpecDispatches == InitDispatch /\ [][NextDispatches]_vars

-----------------------------------------------------------------------------
(* Mappings registered under names that speak of removal *)

\* mappings an application may register under such names
AgentDeleted ==
    [on |-> "agent.deleted", resourceType |-> "agent", relation |-> "owner",
     subjectType |-> "user", resourceId |-> "agentId", subjectId |-> "createdBy"]
MemberRemoved ==
    [on |-> "organization.removeMember", resourceType |-> "organization",
     relation |-> "member", subjectType |-> "user", resourceId |-> "organizationId",
     subjectId |-> "userId"]

RemovalMappingChoices == {AgentDeleted, MemberRemoved, AgentOwner}

\* the lists of at most n such mappings
RECURSIVE RemovalMappingsUpTo(_)
RemovalMappingsUpTo(n) ==
    IF n = 0 THEN {<<>>}
    ELSE RemovalMappingsUpTo(n - 1)
             \cup {Append(ms, m) :
                      ms \in {l \in RemovalMappingsUpTo(n - 1) : Len(l) = n - 1},
                      m \in RemovalMappingChoices}

InitRemovalNames ==
    /\ options \in [namespace : {undefined, "ns_"}, syncOrganizations : BOOLEAN,
                     relationships : RemovalMappingsUpTo(MaxMappings)]
    /\ Constructed

SpecRemovalNames == InitRemovalNames /\ [][NextDispatches]_vars

-----------------------------------------------------------------------------
(* Membership events awaited one after the other, every remote call succeeding *)

\* a plugin that syncs organizations
InitMembership ==
    /\ options \in [namespace : {undefined, "ns_"}, syncOrganizations : {TRUE},
                     relationships : MappingsUpTo(MaxMappings)]
    /\ Constructed

NextMembership ==
    \/ \E eventName \in EventNames, data \in FullPayloads : emitEvent(eventName, data)
    \/ \E i \in 1..(MaxMappings + 1) : HandlerSettles(i, [ok |-> TRUE])
    \/ Returned

SpecMembership == InitMembership /\ [][NextMembership]_vars

-----------------------------------------------------------------------------
(* The example application's GET /api/agents?ids=... *)

\* the ids of the rows of the application's agent table
AgentTable == {"1", "2"}

\* an id that fails /^[a-zA-Z0-9_-]+$/
InvalidId == "1 2"

\* idsParam.split(',').filter(Boolean), for the query strings of at most
\* MaxChecks ids (the limit of 100 ids lies beyond them)
RECURSIVE IdsUpTo(_)
IdsUpTo(n) ==
    IF n = 0 THEN {<<>>}
    ELSE IdsUpTo(n - 1)
             \cup {Append(ids, id) : ids \in {l \in IdsUpTo(n - 1) : Len(l) = n - 1},
                                     id \in AgentTable \cup {"9", InvalidId}}

\* validIdPattern.test(id)
ValidId(id) == id # InvalidId

\* the body posted to the plugin's check-bulk endpoint, as its schema parses it
AgentsBulkBody(requestedIds) ==
    [checks      |-> [i \in 1..Len(requestedIds) |->
                         [resourceType |-> "agent", resourceId |-> requestedIds[i],
                          permission |-> "view"]],
     subjectId   |-> undefined,
     subjectType |-> "user",
     context     |-> undefined]

\* results.filter((check) => check.allowed).map((check) => check.resourceId)
AllowedIds(results) ==
    {results[i].resourceId : i \in {j \in 1..Len(results) : results[j].allowed}}

\* variant: the rows of the requested ids are returned whatever the check says
AgentsResponseUnfiltered(permResponse, requestedIds) ==
    IF permResponse.status # 200
    THEN Json([error |-> "Internal server error"], 500)
    ELSE Json([agents |-> {id \in AgentTable :
                              \E i \in 1..Len(requestedIds) : requestedIds[i] = id}], 200)

\* the handler from `if (!permResponse.ok)` on: a failed check is thrown and
\* caught as a 500, otherwise the rows of the allowed ids are selected
AgentsResponse(permResponse, requestedIds) ==
    IF permResponse.status # 200
    THEN Json([error |-> "Internal server error"], 500)
    ELSE Json([agents |-> AgentTable \cap AllowedIds(permResponse.body.results)], 200)

\* GET up to the answer of the plugin's bulk check, the plugin's handler
\* up to its Promise.all included
GET(session, requestedIds) ==
    /\ pc = "idle"
    /\ req = NoRequest
    /\ req' = [endpoint |-> "GET /api/agents", session |-> session,
                ids |-> requestedIds, body |-> AgentsBulkBody(requestedIds)]
    /\ UNCHANGED <<options, hooks, store, snapshot, ledger, streamed, resourceIds,
                   replies, caught>>
    /\ LET body == AgentsBulkBody(requestedIds)
           actualSubjectId == ActualSubjectId(session, body)
       IN  IF ~session.present
           THEN /\ response' = Json([error |-> "Unauthorized"], 401)
                /\ calls' = <<>>
                /\ promises' = <<>>
                /\ pc' = "idle"
           ELSE IF requestedIds = <<>>
           THEN /\ response' = Json([agents |-> {}], 200)
                /\ calls' = <<>>
                /\ promises' = <<>>
                /\ pc' = "idle"
           ELSE IF \E i \in 1..Len(requestedIds) : ~ValidId(requestedIds[i])
           THEN /\ response' = Json([error |-> "Invalid ID format"], 400)
                /\ calls' = <<>>
                /\ promises' = <<>>
                /\ pc' = "idle"
           ELSE IF Falsy(actualSubjectId)
           THEN /\ response' =
                       AgentsResponse(Json([results |-> <<>>,
                                            reason |-> "unauthenticated"], 401),
                                      requestedIds)
                /\ calls' = <<>>
                /\ promises' = <<>>
                /\ pc' = "idle"
           ELSE /\ promises' = [i \in 1..Len(requestedIds) |-> Pending]
                /\ calls' = [i \in 1..Len(requestedIds) |->
                               CheckPermissionRequest(body.checks[i], body, actualSubjectId)]
                /\ response' = NoResponse
                /\ pc' = "GET"

\* a remote check of the plugin's batch settles; once the batch has failed
\* or is complete the plugin answers and GET returns
GETSettles(i, outcome) ==
    /\ req.endpoint = "GET /api/agents"
    /\ i \in DOMAIN promises
    /\ promises[i] = Pending
    /\ replies' = Append(replies, [index |-> i, outcome |-> outcome])
    /\ promises' = [promises EXCEPT ![i] = BulkItemSettled(req.body.checks[i], outcome)]
    /\ IF pc # "GET"
       THEN UNCHANGED <<response, pc>>
       ELSE IF promises'[i].state = "rejected"
       THEN /\ response' = AgentsResponse(BulkFailed(promises'[i].reason), req.ids)
            /\ pc' = "idle"
       ELSE IF \A j \in DOMAIN promises : promises'[j].state = "fulfilled"
       THEN /\ response' = AgentsResponse(BulkResults(promises'), req.ids)
            /\ pc' = "idle"
       ELSE UNCHANGED <<response, pc>>
    /\ UNCHANGED <<options, hooks, store, snapshot, ledger, req, calls, streamed,
                   resourceIds, caught>>

NextAgents ==
    \/ \E session \in Sessions, requestedIds \in IdsUpTo(MaxChecks) :
           GET(session, requestedIds)
    \/ \E i \in 1..MaxChecks, outcome \in CheckOutcomes : GETSettles(i, outcome)
    \/ Returned

SpecAgents == Init /\ [][NextAgents]_vars

-----------------------------------------------------------------------------
(* Mutations against an engine that refuses to CREATE what exists *)

\* the answers the engine may give to one update of its tuples: a CREATE of
\* an existing tuple is refused, everything else succeeds or fails for
\* reasons of its own
EngineMutationOutcomes(tuples, update) ==
    IF update.operation = "CREATE" /\ update.relationship \in tuples
    THEN {[ok |-> FALSE, message |-> "ALREADY_EXISTS"]}
    ELSE MutationOutcomes

\* the engine answers the awaited mutation
EngineMutationSettles ==
    /\ pc \in {"writeRelationship", "deleteRelationship"}
    /\ \E outcome \in EngineMutationOutcomes(store, calls[Len(calls)].updates[1]) :
           MutationSettles(outcome)

\* the relationships of one agent
OneAgentBodies == {b \in MutationBodies : b.resource.id = "1"}

NextIdempotence ==
    \/ \E session \in Administrators, body \in OneAgentBodies :
           spicedbWriteRelationship(session, body)
    \/ \E session \in Administrators, body \in OneAgentBodies :
           spicedbDeleteRelationship(session, body)
    \/ EngineMutationSettles
    \/ SnapshotAdvances
    \/ Returned

SpecIdempotence == Init /\ [][NextIdempotence]_vars

-----------------------------------------------------------------------------
(* Reads after writes, with and without a consistency requirement *)

\* the owners of one agent
OwnerBodies == {b \in OneAgentBodies : b.relation = "owner"}

\* checks of that agent for the signed-in user or a named one
OwnerCheckBodies ==
    {b \in PlainCheckBodies : /\ b.resourceId = "1"
                              /\ b.permission = "view"
                              /\ b.subjectId \in {undefined, "bob"}}

\* batches of such checks
OwnerBulkBodies ==
    {b \in PlainBulkBodies : b.subjectId \in {undefined, "bob"}}

\* lookups of the agents the signed-in user or a named one may view
OwnerLookupBodies ==
    {b \in PlainLookupBodies : b.permission = "view" /\ b.subjectId \in {undefined, "bob"}}

\* the engine answers check i of the batch from a revision it may evaluate it at
EngineBulkSettles ==
    /\ pc = "checkBulk"
    /\ \E i \in 1..Len(calls) : \E view \in EngineViews(calls[i]) :
           BulkSettles(i, [ok |-> TRUE,
                           permissionship |-> IF Holds(view, calls[i])
                                              THEN "HAS_PERMISSION"
                                              ELSE "NO_PERMISSION"])

NextConsistency ==
    \/ \E session \in Administrators, body \in OwnerBodies :
           spicedbWriteRelationship(session, body)
    \/ \E session \in Administrators, body \in OwnerBodies :
           spicedbDeleteRelationship(session, body)
    \/ \E outcome \in MutationOutcomes : MutationSettles(outcome)
    \/ SnapshotAdvances
    \/ \E session \in Sessions, body \in OwnerCheckBodies :
           spicedbCheck(session, body, FALSE)
    \/ EngineCheckSettles
    \/ \E session \in Sessions, body \in OwnerBulkBodies :
           spicedbCheckBulk(session, body, FALSE)
    \/ EngineBulkSettles
    \/ \E session \in Sessions, body \in OwnerLookupBodies :
           spicedbLookupResources(session, body, FALSE)
    \/ EngineLookupNext
    \/ EngineLookupEnds
    \/ Returned

SpecConsistency == Init /\ [][NextConsistency]_vars

-----------------------------------------------------------------------------
(* The plugin in operation: dispatches and requests to its five endpoints *)

\* requests named for bob about agent 1
NamedCheckBodies == {b \in OwnerCheckBodies : b.subjectId = "bob"}
NamedBulkBodies == {b \in OwnerBulkBodies : b.subjectId = "bob" /\ Len(b.checks) = 1}
NamedLookupBodies == {b \in OwnerLookupBodies : b.subjectId = "bob"}
NamedMutationBodies == {b \in OwnerBodies : b.subject.id = "bob"}

NextOperation ==
    \/ \E eventName \in EventNames, data \in FullPayloads : emitEvent(eventName, data)
    \/ \E i \in 1..(MaxMappings + 1), outcome \in MutationOutcomes :
           HandlerSettles(i, outcome)
    \/ \E session \in Sessions, body \in NamedCheckBodies :
           spicedbCheck(session, body, FALSE)
    \/ EngineCheckSettles
    \/ \E session \in Sessions, body \in NamedBulkBodies :
           spicedbCheckBulk(session, body, FALSE)
    \/ EngineBulkSettles
    \/ \E session \in Sessions, body \in NamedLookupBodies :
           spicedbLookupResources(session, body, FALSE)
    \/ EngineLookupNext
    \/ EngineLookupEnds
    \/ \E session \in Administrators, body \in NamedMutationBodies :
           spicedbWriteRelationship(session, body)
    \/ \E session \in Administrators, body \in NamedMutationBodies :
           spicedbDeleteRelationship(session, body)
    \/ \E outcome \in MutationOutcomes : MutationSettles(outcome)
    \/ Returned

SpecOperation == InitDispatch /\ [][NextOperation]_vars

-----------------------------------------------------------------------------
(* The example application: its plugin, its seed script and its readers *)

\* the relationships option of the example's spicedb({...})
ExampleRelationships == <<AgentOwner, AgentDepartment, DepartmentMember>>

\* an event of the seed script, by the values its mappings read off it
SeedEvent(eventName, agentId, createdBy, departmentId, userId) ==
    [eventName |-> eventName,
     data      |-> [agentId |-> agentId, createdBy |-> createdBy,
                    departmentId |-> departmentId, organizationId |-> undefined,
                    userId |-> userId]]

\* the emitAuthEvent calls of the seed script, in the order it awaits them
SeedEvents ==
    <<SeedEvent("department.member.added", undefined, undefined,
                "dept_engineering", "user_alice"),
      SeedEvent("department.member.added", undefined, undefined,
                "dept_sales", "user_bob"),
      SeedEvent("agent.created", "agent_1", "user_alice", "dept_engineering", undefined),
      SeedEvent("agent.created", "agent_2", "user_alice", "dept_engineering", undefined),
      SeedEvent("agent.created", "agent_3", "user_bob", "dept_sales", undefined)>>

\* the engine holds every relationship the k-th seed event asks for
SeedWritten(k) ==
    LET runs == RunAll(EventHooks(SeedEvents[k].eventName), SeedEvents[k].data)
    IN  \A i \in 1..Len(runs) :
            IsIssued(runs[i]) => runs[i].request.updates[1].relationship \in store

\* the seed script has run to its end
SeedComplete == \A k \in 1..Len(SeedEvents) : SeedWritten(k)

\* the seed script awaits its next emitAuthEvent
seed ==
    \E k \in 1..Len(SeedEvents) :
        /\ \A j \in 1..(k - 1) : SeedWritten(j)
        /\ ~SeedWritten(k)
        /\ emitEvent(SeedEvents[k].eventName, SeedEvents[k].data)

\* the users the seed script creates, signed in
SeedSessions ==
    {[present |-> TRUE, user |-> [id |-> id, role |-> "user"]] :
        id \in {"user_alice", "user_bob", "user_charlie"}}

\* the agents page: the agents the signed-in user may view
SeedLookupBody ==
    [resourceType |-> "agent", permission |-> "view", subjectId |-> undefined,
     subjectType |-> "user", context |-> undefined]

\* may the signed-in user view agent_1
SeedCheckBody ==
    [resourceType |-> "agent", resourceId |-> "agent_1", permission |-> "view",
     subjectId |-> undefined, subjectType |-> "user", context |-> undefined]

InitSeed ==
    /\ options \in [namespace : {undefined, "ns_"}, syncOrganizations : {FALSE},
                     relationships : {ExampleRelationships}]
    /\ Constructed

\* the seed script runs against an engine that accepts every write, and the
\* seeded users read through the endpoints
NextSeed ==
    \/ seed
    \/ \E i \in 1..Len(ExampleRelationships) : HandlerSettles(i, [ok |-> TRUE])
    \/ \E session \in SeedSessions : spicedbLookupResources(session, SeedLookupBody, FALSE)
    \/ EngineLookupNext
    \/ EngineLookupEnds
    \/ \E session \in SeedSessions : spicedbCheck(session, SeedCheckBody, FALSE)
    \/ EngineCheckSettles
    \/ SnapshotAdvances
    \/ Returned

SpecSeed == InitSeed /\ [][NextSeed]_vars

-----------------------------------------------------------------------------
(* Properties of the read endpoints *)

\* req is a request to one of the named endpoints
Serving(endpoints) == req.endpoint \in endpoints

\* req carries neither a non-empty subjectId nor a session user
Anonymous == req.body.subjectId \in {undefined, ""} /\ ~req.session.present

\* the subject id req resolves to, when it is not anonymous
ResolvedSubjectId ==
    IF req.body.subjectId \notin {undefined, ""}
    THEN req.body.subjectId
    ELSE req.session.user.id

\* an id as it travels to the engine under the configured namespace
OnWire(id) ==
    IF options.namespace \in {undefined, ""} THEN id ELSE options.namespace \o id

\* the body of a JSON response has exactly these fields
HasFields(fields) == response.kind = "json" /\ DOMAIN response.body = fields

\* C1: a check request with no subjectId (absent or empty) and no session
\* user is answered {allowed: false, reason: "unauthenticated"} and no remote
\* call is made for it.
C1_CheckUnauthenticated ==
    (Serving({"check"}) /\ Anonymous)
        => /\ response.kind = "json"
           /\ response.body = [allowed |-> FALSE, reason |-> "unauthenticated"]
           /\ calls = <<>>

C1_Witness ==
    /\ Serving({"check"})
    /\ req.body.subjectId = ""
    /\ ~req.session.present
    /\ response = Json([allowed |-> FALSE, reason |-> "unauthenticated"], 401)
    /\ calls = <<>>

\* C2: every remote request issued by check, checkBulk or lookupResources
\* names as its subject the request's subjectId when that is present and
\* non-empty and the session user's id otherwise (as subjectType, under the
\* configured namespace); checkBulk issues one remote check per item, all
\* with this one subject and the request's context.
C2_SubjectDefaulting ==
    (Serving({"check", "checkBulk", "lookupResources"}) /\ calls # <<>>)
        => /\ ~Anonymous
           /\ \A k \in DOMAIN calls :
                  /\ calls[k].subject.objectType = req.body.subjectType
                  /\ calls[k].subject.objectId = OnWire(ResolvedSubjectId)
                  /\ calls[k].context = req.body.context
           /\ Serving({"checkBulk"}) => Len(calls) = Len(req.body.checks)
           /\ ~Serving({"checkBulk"}) => Len(calls) = 1

C2_Witness ==
    /\ Serving({"checkBulk"})
    /\ Len(req.body.checks) = 2
    /\ req.body.subjectId = ""
    /\ req.session.present
    /\ options.namespace = "ns_"
    /\ Len(calls) = 2
    /\ calls[1].subject.objectId = "ns_alice"
    /\ calls[2].subject.objectId = "ns_alice"

\* C3: a checkBulk or lookupResources request with neither a non-empty
\* subjectId nor a session user is answered with an empty result and the
\* reason "unauthenticated", and no remote call is made, however many items
\* the batch holds.
C3_BatchUnauthenticated ==
    (Serving({"checkBulk", "lookupResources"}) /\ Anonymous)
        => /\ response.kind = "json"
           /\ response.body =
                  IF Serving({"checkBulk"})
                  THEN [results |-> <<>>, reason |-> "unauthenticated"]
                  ELSE [resourceIds |-> <<>>, reason |-> "unauthenticated"]
           /\ calls = <<>>

C3_Witness ==
    /\ Serving({"checkBulk"})
    /\ Len(req.body.checks) = 2
    /\ req.body.subjectId = undefined
    /\ ~req.session.present
    /\ response = Json([results |-> <<>>, reason |-> "unauthenticated"], 401)
    /\ calls = <<>>

\* the engine's answer to the single remote check of a check request
CheckReply == replies[1].outcome

\* C5: check returns allowed = true exactly when the engine answers
\* HAS_PERMISSION; for NO_PERMISSION, CONDITIONAL_PERMISSION and UNSPECIFIED
\* it returns allowed = false.
C5_AllowedIffHasPermission ==
    Serving({"check"})
        => /\ (replies # <<>> /\ CheckReply.ok)
                  => /\ response.kind = "json"
                     /\ response.body.allowed =
                            (CheckReply.permissionship = "HAS_PERMISSION")
           /\ (response.kind = "json" /\ response.body.allowed)
                  => /\ replies # <<>>
                     /\ CheckReply.ok
                     /\ CheckReply.permissionship = "HAS_PERMISSION"

C5_Witness ==
    /\ Serving({"check"})
    /\ replies # <<>>
    /\ CheckReply.ok
    /\ CheckReply.permissionship = "HAS_PERMISSION"
    /\ response = Json([allowed |-> TRUE], 200)

\* C6: when the remote call of check fails, or building the request from the
\* context fails, check answers {allowed: false, error: <message>} as a
\* normal response; no failure leaves the handler as an exception.
C6_CheckFailureIsAResponse ==
    Serving({"check"})
        => /\ response.kind # "throw"
           /\ (replies # <<>> /\ ~CheckReply.ok)
                  => /\ response.kind = "json"
                     /\ response.body = [allowed |-> FALSE, error |-> CheckReply.message]
           /\ (calls = <<>> /\ ~Anonymous /\ req.body.context # undefined)
                  => /\ response.kind = "json"
                     /\ response.body = [allowed |-> FALSE, error |-> StructMessage]

C6_Witness ==
    /\ Serving({"check"})
    /\ replies # <<>>
    /\ ~CheckReply.ok
    /\ response = Json([allowed |-> FALSE, error |-> CheckReply.message], 500)

-----------------------------------------------------------------------------
(* Properties of the mutation endpoints *)

\* the caller holds elevated privilege
Privileged(session) == session.present /\ session.user.role = "admin"

\* C4: writeRelationship and deleteRelationship are restricted to callers
\* with elevated privilege: a caller without it (a caller with no session
\* included) is answered with status 403 and no remote mutation is issued.
C4_MutationsArePrivileged ==
    (Serving({"writeRelationship", "deleteRelationship"}) /\ ~Privileged(req.session))
        => /\ calls = <<>>
           /\ response.kind = "json"
           /\ response.status = 403

-----------------------------------------------------------------------------
(* Properties of checkBulk *)

\* req names a subject, by its subjectId or by its session
Authenticated == ~Anonymous

\* every remote check of the batch has been answered
AllAnswered == Len(replies) = Len(req.body.checks)

\* the position in replies of the answer to item i
ArrivalOf(i) == CHOOSE k \in DOMAIN replies : replies[k].index = i

\* the entry the response owes to item i, given the engine's answer to it
EntryOwed(i) ==
    [resourceType |-> req.body.checks[i].resourceType,
     resourceId   |-> req.body.checks[i].resourceId,
     permission   |-> req.body.checks[i].permission,
     allowed      |-> (replies[ArrivalOf(i)].outcome.permissionship = "HAS_PERMISSION")]

\* the answers that are failures, by position in replies
Failures == {k \in DOMAIN replies : ~replies[k].outcome.ok}

\* C7: in an authenticated checkBulk whose remote checks all succeed, results
\* is as long as checks and results[i] carries the resourceType, the raw
\* resourceId and the permission of checks[i] with the allowed value of that
\* item's own answer, in whatever order the answers arrive.
C7_BulkOrderAndCardinality ==
    (Serving({"checkBulk"}) /\ Authenticated /\ calls # <<>> /\ AllAnswered
        /\ Failures = {})
        => /\ HasFields({"results"})
           /\ Len(response.body.results) = Len(req.body.checks)
           /\ \A i \in DOMAIN req.body.checks : response.body.results[i] = EntryOwed(i)

C7_Witness ==
    /\ Serving({"checkBulk"})
    /\ options.namespace = "ns_"
    /\ req.body.checks = <<[resourceType |-> "agent", resourceId |-> "1", permission |-> "view"],
                           [resourceType |-> "agent", resourceId |-> "2", permission |-> "edit"]>>
    /\ replies = <<[index |-> 2, outcome |-> [ok |-> TRUE, permissionship |-> "HAS_PERMISSION"]],
                   [index |-> 1, outcome |-> [ok |-> TRUE, permissionship |-> "NO_PERMISSION"]]>>
    /\ response.kind = "json"
    /\ response.body.results =
           <<[resourceType |-> "agent", resourceId |-> "1", permission |-> "view",
              allowed |-> FALSE],
             [resourceType |-> "agent", resourceId |-> "2", permission |-> "edit",
              allowed |-> TRUE]>>

\* C8 as stated: when the remote check of one item fails and the checks of
\* the other items succeed, the response still holds the per-item results of
\* the other items.
C8_SiblingsSurviveFailure ==
    (Serving({"checkBulk"}) /\ AllAnswered /\ Cardinality(Failures) = 1)
        => /\ response.kind = "json"
           /\ \A i \in DOMAIN req.body.checks :
                  replies[ArrivalOf(i)].outcome.ok
                      => \E j \in DOMAIN response.body.results :
                             response.body.results[j] = EntryOwed(i)

\* C8 amended: every item's remote check is issued, and once the remote
\* check of any item has failed the batch has failed as a whole: the response
\* is {results: [], error: <message of the first failure to arrive>} with
\* status 500 and holds no per-item result, whatever the other items' answers.
C8_FailureFailsTheBatch ==
    (Serving({"checkBulk"}) /\ Failures # {})
        => /\ Len(calls) = Len(req.body.checks)
           /\ LET first == CHOOSE k \in Failures : \A l \in Failures : k <= l
              IN  response = Json([results |-> <<>>,
                                   error |-> replies[first].outcome.message], 500)

C8_Witness ==
    /\ Serving({"checkBulk"})
    /\ Len(req.body.checks) = 2
    /\ AllAnswered
    /\ replies[1].outcome = [ok |-> TRUE, permissionship |-> "HAS_PERMISSION"]
    /\ replies[2].outcome = [ok |-> FALSE, message |-> "UNAVAILABLE"]
    /\ response = Json([results |-> <<>>, error |-> "UNAVAILABLE"], 500)

\* C9: every response to an authenticated checkBulk has one of two shapes:
\* results with one entry per input check and no error field, or empty
\* results with a top-level error; results for only some of the checks are
\* never returned.
C9_BulkAllOrNothing ==
    (Serving({"checkBulk"}) /\ Authenticated /\ response # NoResponse)
        => \/ /\ HasFields({"results"})
              /\ Len(response.body.results) = Len(req.body.checks)
              /\ \A i \in DOMAIN req.body.checks :
                     /\ response.body.results[i].resourceType = req.body.checks[i].resourceType
                     /\ response.body.results[i].resourceId = req.body.checks[i].resourceId
                     /\ response.body.results[i].permission = req.body.checks[i].permission
           \/ /\ HasFields({"results", "error"})
              /\ response.body.results = <<>>

C9_Witness ==
    /\ Serving({"checkBulk"})
    /\ Authenticated
    /\ Len(req.body.checks) = 2
    /\ Len(replies) = 1
    /\ ~replies[1].outcome.ok
    /\ HasFields({"results", "error"})
    /\ response.body.results = <<>>

-----------------------------------------------------------------------------
(* Properties of lookupResources *)

\* the ways of writing id as a prefix followed by a rest: the rests
Suffixes(id) == {SubSeq(id, k, Len(id)) : k \in 1..(Len(id) + 1)}

\* id begins with the configured, non-empty namespace
Prefixed(id) ==
    /\ options.namespace \notin {undefined, ""}
    /\ \E rest \in Suffixes(id) : id = options.namespace \o rest

\* C10: when the stream completes without failure, lookupResources returns
\* the streamed ids in stream order and in the same number (duplicates kept),
\* each without the configured namespace prefix if it starts with it and
\* unchanged otherwise; ["ns_a","ns_b","c"] under "ns_" gives ["a","b","c"].
C10_LookupStripsNamespace ==
    (Serving({"lookupResources"}) /\ calls # <<>> /\ pc = "idle" /\ caught = undefined)
        => /\ HasFields({"resourceIds"})
           /\ Len(response.body.resourceIds) = Len(streamed)
           /\ \A i \in DOMAIN streamed :
                  IF Prefixed(streamed[i])
                  THEN options.namespace \o response.body.resourceIds[i] = streamed[i]
                  ELSE response.body.resourceIds[i] = streamed[i]
           /\ (options.namespace = "ns_" /\ streamed = <<"ns_a", "ns_b", "c">>)
                  => response.body.resourceIds = <<"a", "b", "c">>

C10_Witness ==
    /\ Serving({"lookupResources"})
    /\ options.namespace = "ns_"
    /\ streamed = <<"ns_a", "ns_b", "c">>
    /\ response = Json([resourceIds |-> <<"a", "b", "c">>], 200)

\* C11: when the remote lookup stream fails after delivering k >= 0 ids,
\* lookupResources returns resourceIds = [] with the error message; none of
\* the k ids already received is in the response.
C11_LookupFailureDiscardsPartial ==
    (Serving({"lookupResources"}) /\ replies # <<>> /\ ~replies[1].outcome.ok)
        => /\ HasFields({"resourceIds", "error"})
           /\ response.body.resourceIds = <<>>
           /\ response.body.error = replies[1].outcome.message

C11_Witness ==
    /\ Serving({"lookupResources"})
    /\ Len(streamed) = 2
    /\ resourceIds # <<>>
    /\ replies # <<>>
    /\ ~replies[1].outcome.ok
    /\ response = Json([resourceIds |-> <<>>, error |-> replies[1].outcome.message], 500)

\* the ids a lookup response carries
Returns(id) == \E i \in 1..Len(response.body.resourceIds) : response.body.resourceIds[i] = id

\* C12: once a write of (resource, relation, subject) has been answered with
\* success and no delete of it has been sent since, every lookup answered
\* with a result for that subject, that resource type and a permission the
\* relation grants holds the written resource's raw id, the engine being
\* free to answer from a stale revision whenever full consistency is not
\* asked for
C12_ReadYourWrites ==
    (Serving({"lookupResources"}) /\ response.kind = "json" /\ response.status = 200)
        => \A e \in ledger :
               (/\ e.body.subject.type = req.body.subjectType
                /\ e.body.subject.id = ResolvedSubjectId
                /\ e.body.resource.type = req.body.resourceType
                /\ e.body.relation = "owner"
                /\ req.body.permission \in {"view", "edit"})
                   => Returns(e.body.resource.id)

\* a lookup answered right after a write the cached revision has not seen
C12_Witness ==
    /\ Serving({"lookupResources"}) /\ response.kind = "json" /\ response.status = 200
    /\ snapshot # store
    /\ \E e \in ledger :
           /\ e.body.subject.id = ResolvedSubjectId
           /\ e.relationship \in store \ snapshot
           /\ Returns(e.body.resource.id)
           /\ ~Falsy(options.namespace)

\* C13: whatever the prefix p and the raw id r, the id collected for a
\* streamed p + r is r again
C13_NamespaceRoundTrip ==
    Serving({"lookupResources"})
        => \A i \in 1..Len(streamed) : \A r \in RawIds :
               streamed[i] = OnWire(r) => resourceIds[i] = r

\* under a non-empty prefix the stream held the prefix alone (the empty raw
\* id) and an id whose raw part begins with the prefix, and both came back
C13_Witness ==
    /\ Serving({"lookupResources"}) /\ options.namespace = "t_"
    /\ response.kind = "json" /\ response.status = 200
    /\ streamed = <<"t_", "t_t_1", "t_1">>
    /\ response.body.resourceIds = <<"", "t_1", "1">>

\* the request sent to the engine names this resource id and this subject id
Names(request, resourceId, subjectId) ==
    IF request.rpc = "writeRelationships"
    THEN /\ request.updates[1].relationship.resource.objectId = resourceId
         /\ request.updates[1].relationship.subject.objectId = subjectId
    ELSE /\ request.rpc = "checkPermission" => request.resource.objectId = resourceId
         /\ request.subject.objectId = subjectId

\* C14: with no namespace configured (absent or empty) every id that write,
\* delete, check, checkBulk and lookupResources send to the engine is the raw
\* id of the request, and the ids lookupResources collects are the streamed
\* ones
C14_NoNamespaceIsIdentity ==
    (options.namespace \in {undefined, ""} /\ req # NoRequest)
        => /\ Serving({"check", "lookupResources"}) =>
                  \A i \in 1..Len(calls) :
                      Names(calls[i], req.body.resourceId, ResolvedSubjectId)
           /\ Serving({"checkBulk"}) =>
                  \A i \in 1..Len(calls) :
                      Names(calls[i], req.body.checks[i].resourceId, ResolvedSubjectId)
           /\ Serving({"writeRelationship", "deleteRelationship"}) =>
                  \A i \in 1..Len(calls) :
                      Names(calls[i], req.body.resource.id, req.body.subject.id)
           /\ Serving({"lookupResources"}) =>
                  /\ resourceIds = streamed
                  /\ response.kind = "json" /\ response.status = 200
                         => response.body.resourceIds = streamed

\* without a namespace a lookup for bob was answered with ids that look
\* namespaced, unchanged
C14_Witness ==
    /\ options.namespace = undefined
    /\ Serving({"lookupResources"}) /\ Len(calls) = 1
    /\ calls[1].subject.objectId = "bob"
    /\ response.kind = "json" /\ response.status = 200
    /\ response.body.resourceIds = <<"ns_a", "c">>

\* a write answered with success through the instance serving req accounts
\* for the subject of req holding the permission of req on this resource id
WrittenHere(resourceType, resourceId) ==
    \E e \in ledger :
        /\ e.namespace = options.namespace
        /\ e.body.resource = [type |-> resourceType, id |-> resourceId]
        /\ e.body.relation = "owner"
        /\ e.body.subject = [type |-> req.body.subjectType, id |-> ResolvedSubjectId]

\* C15: of the relationships in a shared engine an instance shows only those
\* written through an instance of its own namespace: a check it answers
\* with allowed, and every id a lookup of it returns, is accounted for by
\* such a write, whatever the two prefixes and the raw ids are
C15_TenantIsolation ==
    /\ (Serving({"check"}) /\ response.kind = "json" /\ response.body.allowed)
           => WrittenHere(req.body.resourceType, req.body.resourceId)
    /\ (Serving({"lookupResources"}) /\ response.kind = "json")
           => \A i \in 1..Len(response.body.resourceIds) :
                  WrittenHere(req.body.resourceType, response.body.resourceIds[i])

\* C16: a write or delete request one of whose five fields is the empty
\* string is answered as a validation error and no remote call is made for it
C16_EmptyFieldsAreRejected ==
    (/\ Serving({"writeRelationship", "deleteRelationship"})
     /\ "" \in {req.body.resource.type, req.body.resource.id, req.body.relation,
                req.body.subject.type, req.body.subject.id})
        => /\ calls = <<>>
           /\ response.kind = "json" /\ response.status = 400

\* C17: once the single remote mutation of a write or delete request has
\* settled, the response is {success: true} when it succeeded and
\* {success: false, error: <its message>} when it failed, success being true
\* in no other case; the failure never leaves the endpoint as an exception
C17_SuccessIffMutationSucceeded ==
    Serving({"writeRelationship", "deleteRelationship"})
        => /\ response.kind \in {"none", "json"}
           /\ response.kind = "none" <=> replies = <<>>
           /\ replies # <<>> =>
                  /\ Len(calls) = 1 /\ Len(replies) = 1
                  /\ replies[1].outcome.ok =>
                         response.body = [success |-> TRUE]
                  /\ ~replies[1].outcome.ok =>
                         response.body = [success |-> FALSE,
                                          error |-> replies[1].outcome.message]

\* a delete whose remote mutation failed, answered with the engine's message
C17_Witness ==
    /\ Serving({"deleteRelationship"})
    /\ replies # <<>> /\ ~replies[1].outcome.ok
    /\ response = Json([success |-> FALSE, error |-> "UNAVAILABLE"], 500)

\* some remote call of req has been answered with a failure
RemoteCallFailed == \E i \in 1..Len(replies) : ~replies[i].outcome.ok

\* C18: a response of check, checkBulk or lookupResources has status 401
\* exactly when the request has no effective subject, 500 exactly when it
\* has one and a remote call failed, and 200 in every other case
C18_StatusByOutcome ==
    (Serving({"check", "checkBulk", "lookupResources"}) /\ response.kind # "none")
        => /\ response.kind = "json"
           /\ response.status = 401 <=> Anonymous
           /\ response.status = 500 <=> (~Anonymous /\ RemoteCallFailed)
           /\ response.status = 200 <=> (~Anonymous /\ ~RemoteCallFailed)

\* the response is the unauthenticated one of the endpoint of req
AnsweredUnauthenticated ==
    /\ response.kind = "json" /\ response.status = 401
    /\ response.body.reason = "unauthenticated"
    /\ Serving({"checkBulk"}) => response.body.results = <<>>
    /\ Serving({"lookupResources"}) => response.body.resourceIds = <<>>

\* C19 as stated: a checkBulk or lookupResources request without a session
\* is answered as unauthenticated with an empty result and no remote call,
\* also when it supplies a subjectId
C19_SessionRequired ==
    (Serving({"checkBulk", "lookupResources"}) /\ ~req.session.present)
        => AnsweredUnauthenticated /\ calls = <<>>

\* C19 amended: checkBulk and lookupResources require an effective subject,
\* not a session: a request without a session is answered as unauthenticated
\* with an empty result and no remote call when its subjectId is absent or
\* empty, and is served for the supplied subject otherwise (never answered
\* 401, every remote call naming that subject)
C19_SubjectRequired ==
    (Serving({"checkBulk", "lookupResources"}) /\ ~req.session.present)
        => IF req.body.subjectId \in {undefined, ""}
           THEN AnsweredUnauthenticated /\ calls = <<>>
           ELSE /\ response.kind = "json" => response.status \in {200, 500}
                /\ \A i \in 1..Len(calls) :
                       calls[i].subject.objectId = OnWire(req.body.subjectId)
                /\ (response.kind = "json" /\ response.status = 200
                        /\ Serving({"lookupResources"}))
                       => Len(calls) = 1

\* a lookup without a session, for the supplied subject, answered with ids
C19_Witness ==
    /\ Serving({"lookupResources"}) /\ ~req.session.present
    /\ req.body.subjectId = "bob"
    /\ Len(calls) = 1 /\ calls[1].subject.objectId = OnWire("bob")
    /\ response.kind = "json" /\ response.status = 200
    /\ response.body.resourceIds # <<>>

\* the extractors of mapping m deliver two non-empty ids for the event of req
Extractable(m) ==
    /\ req.data # null
    /\ req.data[m.resourceId] \notin {undefined, "", nil, Thrown}
    /\ req.data[m.subjectId] \notin {undefined, "", nil, Thrown}

\* the write mapping m owes the engine for the event of req
OwedWrite(m) ==
    [rpc     |-> "writeRelationships",
     updates |-> <<[operation    |-> "TOUCH",
                    relationship |->
                        [resource |-> [objectType |-> m.resourceType,
                                       objectId |-> OnWire(req.data[m.resourceId])],
                         relation |-> m.relation,
                         subject  |-> [objectType |-> m.subjectType,
                                       objectId |-> OnWire(req.data[m.subjectId])]]]>>]

\* the positions of the configured mappings registered under the event of req
Registered ==
    {k \in 1..Len(options.relationships) : options.relationships[k].on = req.eventName}

\* C20: one dispatch of an event runs every mapping registered under its
\* name: each of them whose extractors deliver ids has its write issued to
\* the engine, one write per mapping, whatever happens to the other handlers
\* of the event (an extractor that raises, a remote write that fails)
C20_SiblingHandlersAllRun ==
    Serving({"emitEvent"})
        => /\ \A k \in Registered :
                  Extractable(options.relationships[k])
                      => \E j \in 1..Len(calls) : calls[j] = OwedWrite(options.relationships[k])
           /\ Cardinality({k \in Registered : Extractable(options.relationships[k])})
                  <= Len(calls)

\* two mappings under one name: the extractor of the first raised, the write
\* of the second went out and was applied
C20_Witness ==
    /\ Serving({"emitEvent"}) /\ req.eventName = "agent.created"
    /\ options.relationships = <<AgentOwner, AgentDepartment>>
    /\ req.data # null /\ req.data.createdBy = Thrown
    /\ calls = <<OwedWrite(AgentDepartment)>>
    /\ OwedWrite(AgentDepartment).updates[1].relationship \in store
    /\ response = Resolved

\* two mappings under one name: the remote write of the first failed, the
\* write of the second was applied
C20_WitnessRemoteFailure ==
    /\ Serving({"emitEvent"}) /\ req.eventName = "agent.created"
    /\ options.relationships = <<AgentOwner, AgentDepartment>>
    /\ req.data # null
    /\ calls = <<OwedWrite(AgentOwner), OwedWrite(AgentDepartment)>>
    /\ replies = <<[index |-> 1, outcome |-> [ok |-> FALSE, message |-> "UNAVAILABLE"]],
                   [index |-> 2, outcome |-> [ok |-> TRUE]]>>
    /\ store = {OwedWrite(AgentDepartment).updates[1].relationship}

-----------------------------------------------------------------------------
(* Properties of event dispatch, continued *)

\* C21: whatever the event name, the payload, the extractors' outcomes and
\* the remote outcomes are, no handler's promise is rejected and the
\* emitter's promise is pending or resolved, never rejected
C21_DispatchNeverRejects ==
    Serving({"emitEvent"})
        => /\ response.kind \in {"none", "resolved"}
           /\ \A i \in 1..Len(promises) : promises[i].state \in {"pending", "fulfilled"}
           /\ (Len(replies) = Len(calls)) => response.kind = "resolved"

\* a dispatch with an extractor that raised and a remote write that failed
\* has resolved
C21_Witness ==
    /\ Serving({"emitEvent"}) /\ Len(promises) = 2
    /\ req.data # null /\ req.data.departmentId = Thrown
    /\ Len(calls) = 1 /\ replies # <<>> /\ ~replies[1].outcome.ok
    /\ response = [kind |-> "resolved"]

\* one of the extractors of mapping m delivers "", null or undefined for the
\* event of req
Empty(m) ==
    /\ req.data # null
    /\ \/ req.data[m.resourceId] \in {"", nil, undefined}
       \/ req.data[m.subjectId] \in {"", nil, undefined}

\* the request is a write for the resource type, relation and subject type
\* of mapping m
WriteOf(request, m) ==
    /\ request.updates[1].relationship.resource.objectType = m.resourceType
    /\ request.updates[1].relationship.relation = m.relation
    /\ request.updates[1].relationship.subject.objectType = m.subjectType

\* C22: a configured mapping one of whose extractors delivers an empty
\* string, null or undefined for the dispatched payload issues no remote
\* write in this dispatch, and the dispatch resolves once the writes of the
\* other handlers have been answered
C22_EmptyIdsSkipTheMapping ==
    Serving({"emitEvent"})
        => /\ \A k \in Registered :
                  Empty(options.relationships[k])
                      => \A j \in 1..Len(calls) :
                             ~WriteOf(calls[j], options.relationships[k])
           /\ (Len(replies) = Len(calls)) => response = [kind |-> "resolved"]

\* the subject extractor of the first mapping delivered null: only the
\* second mapping wrote, and the dispatch resolved
C22_Witness ==
    /\ Serving({"emitEvent"}) /\ req.eventName = "agent.created"
    /\ options.relationships = <<AgentOwner, AgentDepartment>>
    /\ req.data # null /\ req.data.createdBy = nil
    /\ calls = <<OwedWrite(AgentDepartment)>>
    /\ Len(replies) = 1
    /\ response = [kind |-> "resolved"]

\* C23: the emitter's promise is resolved only when every handler of the
\* event has finished (each promise fulfilled, each issued write answered),
\* and, every remote call being answered in the end, each dispatch resolves
C23_ResolvesAfterEveryHandler ==
    /\ [](Serving({"emitEvent"}) /\ response.kind = "resolved"
              => /\ \A i \in 1..Len(promises) : promises[i].state = "fulfilled"
                 /\ Len(replies) = Len(calls))
    /\ Serving({"emitEvent"}) ~> (response.kind = "resolved")

\* a dispatch to three handlers resolved after all three writes were
\* answered, one of them with a failure
C23_Witness ==
    /\ Serving({"emitEvent"}) /\ response.kind = "resolved"
    /\ Len(promises) = 3 /\ Len(calls) = 3 /\ Len(replies) = 3
    /\ \E k \in 1..3 : ~replies[k].outcome.ok

\* the kinds of the built-in handlers owed to event name e, in order
BuiltinKinds(e) ==
    IF options.syncOrganizations /\ e = "organization.addMember" THEN <<"addMember">>
    ELSE IF options.syncOrganizations /\ e = "organization.removeMember"
    THEN <<"removeMember">>
    ELSE <<>>

\* the positions of the configured mappings whose event name is e
MappingsOn(e) ==
    {k \in 1..Len(options.relationships) : options.relationships[k].on = e}

\* C24: for every event name the handler list is the built-in handler of
\* that name (when the sync flag is set) followed by one handler per
\* configured mapping of that name, in the order of the configured list; a
\* mapping registered under a name that has handlers already, a built-in's
\* name included, comes after them and none of them is lost
C24_HandlerListsAreAppended ==
    \A e \in EventNames \cup DOMAIN hooks :
        LET hs == IF e \in DOMAIN hooks THEN hooks[e] ELSE <<>>
            b  == BuiltinKinds(e)
            ks == MappingsOn(e)
        IN  /\ Len(hs) = Len(b) + Cardinality(ks)
            /\ \A i \in 1..Len(b) : hs[i] = [kind |-> b[i]]
            /\ \A k \in ks :
                   hs[Len(b) + Cardinality({j \in ks : j <= k})]
                       = [kind |-> "mapping", mapping |-> options.relationships[k]]
            /\ e \in DOMAIN hooks => hs # <<>>

\* two mappings registered under the member-added name of a syncing plugin
\* stand behind the built-in handler, and a dispatch has reached all three
C24_Witness ==
    /\ options.syncOrganizations
    /\ options.relationships = <<OrganizationAdmin, OrganizationAdmin>>
    /\ Len(hooks["organization.addMember"]) = 3
    /\ hooks["organization.addMember"][1] = [kind |-> "addMember"]
    /\ Serving({"emitEvent"}) /\ req.eventName = "organization.addMember"
    /\ Len(calls) = 3

\* the event of req carries an organization id and a user id
CarriesMember ==
    /\ req.data # null
    /\ req.data.organizationId \notin {undefined, "", nil, Thrown}
    /\ req.data.userId \notin {undefined, "", nil, Thrown}

\* the update of organization:<organizationId>#member@user:<userId> for the
\* event of req
MemberUpdate(operation) ==
    [rpc     |-> "writeRelationships",
     updates |-> <<[operation    |-> operation,
                    relationship |->
                        [resource |-> [objectType |-> "organization",
                                       objectId |-> OnWire(req.data.organizationId)],
                         relation |-> "member",
                         subject  |-> [objectType |-> "user",
                                       objectId |-> OnWire(req.data.userId)]]]>>]

\* C25: with the sync flag set, a dispatch of the member-added event with an
\* organization id and a user id issues the TOUCH of
\* organization:<organizationId>#member@user:<userId>, and a dispatch of the
\* member-removed event the DELETE of that tuple, once and before the writes
\* of mappings; without the flag the two names have no built-in handler and
\* cause remote calls only for mappings registered under them
C25_OrganizationSync ==
    (Serving({"emitEvent"})
        /\ req.eventName \in {"organization.addMember", "organization.removeMember"})
        => LET operation == IF req.eventName = "organization.addMember"
                            THEN "TOUCH" ELSE "DELETE"
               members   == {j \in 1..Len(calls) :
                                calls[j].updates[1].relationship.relation = "member"}
           IN  /\ (options.syncOrganizations /\ CarriesMember)
                      => /\ calls # <<>>
                         /\ calls[1] = MemberUpdate(operation)
                         /\ members = {1}
               /\ ~options.syncOrganizations
                      => /\ members = {}
                         /\ Len(calls) <= Cardinality(MappingsOn(req.eventName))
                         /\ \A j \in 1..Len(calls) :
                                calls[j].updates[1].operation = "TOUCH"

\* the member-removed event of a syncing plugin: the DELETE of the member
\* tuple went out and was applied
C25_Witness ==
    /\ options.syncOrganizations /\ options.namespace = "ns_"
    /\ Serving({"emitEvent"}) /\ req.eventName = "organization.removeMember"
    /\ req.data # null
    /\ req.data.organizationId = "acme" /\ req.data.userId = "bob"
    /\ calls = <<MemberUpdate("DELETE")>>
    /\ calls[1].updates[1].relationship.resource.objectId = "ns_acme"
    /\ replies = <<[index |-> 1, outcome |-> [ok |-> TRUE]]>>
    /\ response.kind = "resolved"

\* C26: a dispatch of an event name under which nothing is registered (no
\* built-in of a syncing plugin, no configured mapping) makes no remote call
\* and is resolved at once; it is no error
C26_UnknownEventIsANoOp ==
    (/\ Serving({"emitEvent"})
     /\ MappingsOn(req.eventName) = {}
     /\ ~(/\ options.syncOrganizations
          /\ req.eventName \in {"organization.addMember", "organization.removeMember"}))
        => /\ calls = <<>>
           /\ promises = <<>>
           /\ response = [kind |-> "resolved"]
           /\ store = {}

\* a plugin with handlers for other names was sent a name that objects
\* inherit a property for
C26_Witness ==
    /\ Serving({"emitEvent"}) /\ req.eventName = "constructor"
    /\ options.syncOrganizations /\ Len(options.relationships) = 2
    /\ req.data # null
    /\ calls = <<>>
    /\ response.kind = "resolved"

-----------------------------------------------------------------------------
(* Properties of the relationship writer *)

\* the tuple the mutation request req is about, as the engine knows it
WireTuple ==
    [resource |-> [objectType |-> req.body.resource.type,
                   objectId |-> OnWire(req.body.resource.id)],
     relation |-> req.body.relation,
     subject  |-> [objectType |-> req.body.subject.type,
                   objectId |-> OnWire(req.body.subject.id)]]

HandlerCount ==
    Len(BuiltinKinds(req.eventName)) + Cardinality(MappingsOn(req.eventName))

\* C28: nothing is sent twice: in a dispatch every handler invokes the
\* relationship writer at most once and each invocation issues one remote
\* request whether it is answered with success or failure, so that the
\* mutations of a dispatch are at most as many as the handlers of the event,
\* one per handler that is awaiting or has had an answer
C28_NoRetry ==
    Serving({"emitEvent"})
        => /\ Len(promises) = HandlerCount
           /\ Len(calls) <= HandlerCount
           /\ Len(calls) = Len(replies)
                  + Cardinality({i \in 1..Len(promises) : promises[i].state = "pending"})
           /\ \A i, j \in 1..Len(replies) :
                  replies[i].index = replies[j].index => i = j

\* every write of a dispatch to three handlers failed, and three requests
\* is all the engine was sent
C28_Witness ==
    /\ Serving({"emitEvent"}) /\ HandlerCount = 3
    /\ Len(calls) = 3 /\ Len(replies) = 3
    /\ \A i \in 1..3 : ~replies[i].outcome.ok
    /\ response.kind = "resolved"

\* the ids the lookup answered with
Answered == {response.body.resourceIds[i] : i \in 1..Len(response.body.resourceIds)}

\* the agents the seeded user may view
Viewable(userId) ==
    CASE userId = "user_alice" -> {"agent_1", "agent_2"}
      [] userId = "user_bob" -> {"agent_3"}
      [] OTHER -> {}

\* a lookup of the agents a seeded user may view, answered after the seed
SeedLookupAnswered ==
    /\ SeedComplete
    /\ Serving({"lookupResources"})
    /\ response # NoResponse

\* a check of agent_1 for a seeded user, answered after the seed
SeedCheckAnswered ==
    /\ SeedComplete
    /\ Serving({"check"})
    /\ response # NoResponse

\* C29 as stated: after the seed, the lookup of viewable agents returns
\* exactly agent_1 and agent_2 for Alice, exactly agent_3 for Bob and nothing
\* for Charlie, and the check of agent_1 is allowed for Alice and not for Bob
C29_SeedScenarioAsStated ==
    /\ SeedLookupAnswered =>
           /\ response = Json([resourceIds |-> response.body.resourceIds], 200)
           /\ Answered = Viewable(req.session.user.id)
           /\ Len(response.body.resourceIds) = Cardinality(Answered)
    /\ SeedCheckAnswered =>
           response = Json([allowed |-> req.session.user.id = "user_alice"], 200)

\* C29: after the seed, the lookup of viewable agents returns exactly agent_1
\* and agent_2 for Alice, exactly agent_3 for Bob and nothing for Charlie;
\* the check of agent_1 is never allowed for Bob or Charlie, and is allowed for
\* Alice whenever the engine's cached revision holds the seed's relationships
C29_SeedScenario ==
    /\ SeedLookupAnswered =>
           /\ response = Json([resourceIds |-> response.body.resourceIds], 200)
           /\ Answered = Viewable(req.session.user.id)
           /\ Len(response.body.resourceIds) = Cardinality(Answered)
    /\ SeedCheckAnswered =>
           /\ response.kind = "json" /\ response.status = 200
           /\ req.session.user.id # "user_alice" => response.body = [allowed |-> FALSE]
           /\ req.session.user.id = "user_alice" /\ snapshot = store =>
                  response.body = [allowed |-> TRUE]

\* Alice has been shown her two agents, and told by an engine whose cached
\* revision holds the seed that she may view agent_1
C29_Witness ==
    /\ SeedCheckAnswered
    /\ req.session.user.id = "user_alice"
    /\ snapshot = store
    /\ response.body = [allowed |-> TRUE]

\* Alice has been shown her two agents after the seed
C29_WitnessLookup ==
    /\ SeedLookupAnswered
    /\ req.session.user.id = "user_alice"
    /\ Answered = {"agent_1", "agent_2"}

\* the acknowledged writes that make the subject of req an owner of the
\* resource req names
OwnerWrites ==
    {e \in ledger : /\ e.body.resource = [type |-> req.body.resourceType,
                                            id |-> req.body.resourceId]
                     /\ e.body.relation = "owner"
                     /\ e.body.subject = [type |-> req.body.subjectType,
                                           id |-> ResolvedSubjectId]}

\* C30: every remote request of lookupResources carries the full-consistency
\* requirement and no remote request of check or checkBulk carries any
\* consistency requirement; a check that answers allowed = false although
\* the write making its subject an owner has been acknowledged was answered
\* from a cached revision that lacks that write
C30_ConsistencyByEndpoint ==
    /\ Serving({"lookupResources"}) =>
           \A k \in 1..Len(calls) : /\ calls[k].rpc = "lookupResources"
                                     /\ calls[k].consistency = "fullyConsistent"
    /\ Serving({"check", "checkBulk"}) =>
           \A k \in 1..Len(calls) : /\ calls[k].rpc = "checkPermission"
                                     /\ calls[k].consistency = undefined
    /\ (Serving({"check"}) /\ response = Json([allowed |-> FALSE], 200)) =>
           \A e \in OwnerWrites : /\ e.relationship \in store
                                   /\ e.relationship \notin snapshot

\* a check issued after an acknowledged write that makes its subject an owner
\* is answered allowed = false from the cached revision
C30_Witness ==
    /\ Serving({"check"})
    /\ response = Json([allowed |-> FALSE], 200)
    /\ req.body.permission = "view"
    /\ calls[1].consistency = undefined
    /\ OwnerWrites # {}

\* a batch and a lookup have sent their remote requests
C30_WitnessRequests ==
    \/ Serving({"checkBulk"}) /\ Len(calls) = MaxChecks
    \/ Serving({"lookupResources"}) /\ Len(calls) = 1

-----------------------------------------------------------------------------
(* Properties of event dispatch: concurrency, independence of dispatches *)

\* the built-in handler of the event of req reads its ids without raising
BuiltinReads ==
    /\ req.data # null
    /\ req.data.organizationId # Thrown
    /\ req.data.userId # Thrown

\* the handlers of the event of req that get past reading their ids
PassExtraction ==
    Cardinality({k \in Registered : Extractable(options.relationships[k])})
        + (IF BuiltinKinds(req.eventName) # <<>> /\ BuiltinReads THEN 1 ELSE 0)

\* C31: the handlers of a dispatch run concurrently: while no remote answer
\* has arrived yet, the remote mutation of every handler that got past
\* reading its ids is out already, one per such handler, and the arrival of
\* an answer (or its absence) issues no further call
C31_HandlersRunConcurrently ==
    /\ [](Serving({"emitEvent"}) /\ replies = <<>>
              => /\ Len(calls) = PassExtraction
                 /\ \A k \in Registered :
                        Extractable(options.relationships[k])
                            => \E j \in 1..Len(calls) :
                                   calls[j] = OwedWrite(options.relationships[k]))
    /\ [][Serving({"emitEvent"}) /\ req' = req => calls' = calls]_vars

\* two handlers have their writes out, the second has been answered and the
\* first has not
C31_Witness ==
    /\ Serving({"emitEvent"}) /\ req.eventName = "agent.created"
    /\ options.relationships = <<AgentOwner, AgentDepartment>>
    /\ req.data # null
    /\ calls = <<OwedWrite(AgentOwner), OwedWrite(AgentDepartment)>>
    /\ promises[1] = Pending
    /\ Len(replies) = 1 /\ replies[1].index = 2
    /\ pc = "emitEvent"

\* the remote calls the event of req owes the engine: the built-in handler's
\* update, then the write of every mapping registered under the name whose
\* extractors deliver ids, in the order of the configured list
OwedCalls ==
    LET kinds   == BuiltinKinds(req.eventName)
        builtin == IF kinds = <<>> \/ ~BuiltinReads THEN <<>>
                   ELSE IF kinds[1] = "addMember" THEN <<MemberUpdate("TOUCH")>>
                   ELSE <<MemberUpdate("DELETE")>>
        owing(m) == m.on = req.eventName /\ Extractable(m)
        mappings == SelectSeq(options.relationships, owing)
    IN  builtin \o [k \in 1..Len(mappings) |-> OwedWrite(mappings[k])]

\* C32: whatever dispatches went before and however their handlers failed
\* (an extractor that raised, a remote write that failed), a dispatch has
\* one handler per registration of its event and its remote calls are the
\* ones the event owes, in order, as if nothing had failed before
C32_FailuresLeaveNoTrace ==
    Serving({"emitEvent"})
        => /\ Len(promises) = HandlerCount
           /\ calls = OwedCalls

\* the engine holds the agent's department but not its owner, so a handler
\* of an earlier dispatch failed; the dispatch under way has both writes out
C32_Witness ==
    /\ Serving({"emitEvent"}) /\ req.eventName = "agent.created"
    /\ options.relationships = <<AgentOwner, AgentDepartment>>
    /\ req.data.createdBy # Thrown
    /\ replies = <<>>
    /\ calls = <<OwedWrite(AgentOwner), OwedWrite(AgentDepartment)>>
    /\ store = {OwedWrite(AgentDepartment).updates[1].relationship}

\* C33: the operation of a remote mutation is fixed by the registration,
\* never by the event name: every call of a dispatch is a TOUCH or a DELETE,
\* a DELETE is the first call of a member-removed dispatch of a plugin that
\* syncs organizations (the built-in handler's), and the call of every
\* mapping is the TOUCH of its tuple, under names that speak of removal too
C33_OperationByRegistration ==
    Serving({"emitEvent"})
        => /\ \A j \in 1..Len(calls) :
                  /\ calls[j].updates[1].operation \in {"TOUCH", "DELETE"}
                  /\ calls[j].updates[1].operation = "DELETE"
                         => /\ j = 1
                            /\ options.syncOrganizations
                            /\ req.eventName = "organization.removeMember"
           /\ \A k \in Registered :
                  Extractable(options.relationships[k])
                      => \E j \in 1..Len(calls) :
                             /\ calls[j] = OwedWrite(options.relationships[k])
                             /\ j > Len(BuiltinKinds(req.eventName))

\* a mapping registered under the member-removed name of a plugin that does
\* not sync organizations, and one under the agent-deleted name, have
\* written their tuples
C33_Witness ==
    /\ Serving({"emitEvent"})
    /\ \/ /\ req.eventName = "organization.removeMember"
          /\ ~options.syncOrganizations
          /\ calls = <<OwedWrite(MemberRemoved)>>
          /\ OwedWrite(MemberRemoved).updates[1].relationship \in store
          /\ OwedWrite(AgentDeleted).updates[1].relationship \in store
       \/ /\ req.eventName = "agent.deleted"
          /\ calls = <<OwedWrite(AgentDeleted)>>
          /\ OwedWrite(AgentDeleted).updates[1].relationship \in store
          /\ OwedWrite(MemberRemoved).updates[1].relationship \in store

\* the ids a payload can hand to a handler: its non-empty values
PayloadIds ==
    IF req.data = null THEN {}
    ELSE {req.data[f] : f \in DOMAIN req.data} \ {undefined, "", nil, Thrown}

\* C34: every remote mutation of a dispatch names a resource and a subject
\* by non-empty ids of the payload, and a built-in handler whose payload
\* lacks the organization id or the user id issues none, so that the calls
\* of such a dispatch are those of the mappings alone
C34_IssuedIdsAreNonEmpty ==
    Serving({"emitEvent"})
        => /\ \A j \in 1..Len(calls) :
                  LET relationship == calls[j].updates[1].relationship
                  IN  /\ \E id \in PayloadIds : relationship.resource.objectId = OnWire(id)
                      /\ \E id \in PayloadIds : relationship.subject.objectId = OnWire(id)
           /\ (BuiltinKinds(req.eventName) # <<>> /\ ~CarriesMember)
                  => Len(calls) = Cardinality({k \in Registered :
                                                  Extractable(options.relationships[k])})

\* C35: once the plugin is constructed no dispatch and no request to one of
\* its five endpoints changes the handler lists: every event name has the
\* handlers of its construction, in their order, at every moment of operation
C35_RegistryIsReadOnly ==
    /\ [](\A e \in EventNames :
              /\ HasHooks(e) <=> (BuiltinKinds(e) # <<>> \/ MappingsOn(e) # {})
              /\ Len(EventHooks(e)) = Len(BuiltinKinds(e)) + Cardinality(MappingsOn(e)))
    /\ [][hooks' = hooks]_vars

\* a write through the endpoint has been answered after a dispatch that
\* reached the engine, and the event still has its two handlers
C35_Witness ==
    /\ Serving({"writeRelationship"})
    /\ response = Json([success |-> TRUE], 200)
    /\ options.relationships = <<AgentOwner, AgentDepartment>>
    /\ Len(hooks["agent.created"]) = 2
    /\ \E t \in store : t.relation = "department"

-----------------------------------------------------------------------------
(* Properties of the read endpoints: frame, independence of the session *)

ReadEndpoints == {"check", "checkBulk", "lookupResources"}

\* C36: the read endpoints send the engine nothing but checkPermission and
\* lookupResources requests, and no step of serving a read request, whatever
\* its outcome, changes the tuples the engine holds
C36_ReadsDoNotMutate ==
    /\ [](Serving(ReadEndpoints)
              => \A k \in 1..Len(calls) :
                     calls[k].rpc \in {"checkPermission", "lookupResources"})
    /\ [][req'.endpoint \in ReadEndpoints => store' = store]_vars

\* with a tuple in the engine, a check has been answered as an upstream
\* failure
C36_Witness ==
    /\ Serving({"check"})
    /\ store # {}
    /\ response.kind = "json" /\ response.status = 500
    /\ Len(calls) = 1

\* with a tuple in the engine, a lookup has been refused as unauthenticated
\* and a batch has been answered with results
C36_WitnessOutcomes ==
    /\ store # {}
    /\ \/ Serving({"lookupResources"}) /\ response.kind = "json" /\ response.status = 401
       \/ Serving({"checkBulk"}) /\ response.kind = "json" /\ response.status = 200
                                  /\ Len(calls) = MaxChecks

\* req names its subject itself
NamesSubject == req.body.subjectId \notin {undefined, ""}

\* what the request of req is answered with, by its body and by what the
\* engine has answered so far (nothing yet, a failure to build the context,
\* permissionships, streamed ids, a failure); the session is no part of it
AnswerByBody ==
    CASE req.endpoint = "check" ->
             IF calls = <<>>
             THEN Json([allowed |-> FALSE, error |-> StructMessage], 500)
             ELSE IF replies = <<>> THEN NoResponse
             ELSE IF replies[1].outcome.ok
             THEN Json([allowed |-> replies[1].outcome.permissionship = "HAS_PERMISSION"],
                       200)
             ELSE Json([allowed |-> FALSE, error |-> replies[1].outcome.message], 500)
      [] req.endpoint = "checkBulk" ->
             IF req.body.checks = <<>> THEN Json([results |-> <<>>], 200)
             ELSE IF calls = <<>>
             THEN Json([results |-> <<>>, error |-> StructMessage], 500)
             ELSE IF Failures # {}
             THEN LET first == CHOOSE k \in Failures : \A l \in Failures : k <= l
                  IN  Json([results |-> <<>>, error |-> replies[first].outcome.message],
                           500)
             ELSE IF AllAnswered
             THEN Json([results |-> [i \in DOMAIN req.body.checks |-> EntryOwed(i)]], 200)
             ELSE NoResponse
      [] req.endpoint = "lookupResources" ->
             IF calls = <<>>
             THEN Json([resourceIds |-> <<>>, error |-> StructMessage], 500)
             ELSE IF replies # <<>>
             THEN Json([resourceIds |-> <<>>, error |-> replies[1].outcome.message], 500)
             ELSE IF pc = "lookupResources" THEN NoResponse
             ELSE Json([resourceIds |-> resourceIds], 200)

\* C37: a read request that names its subject is served for that subject
\* whoever sends it: with no session or with the session of another user,
\* every remote request names the supplied subject and the response is the
\* one the body and the engine's answers determine, never a refusal
C37_NamedSubjectIgnoresSession ==
    (Serving(ReadEndpoints) /\ NamesSubject)
        => /\ \A i \in 1..Len(calls) :
                  calls[i].subject = [objectType |-> req.body.subjectType,
                                      objectId |-> OnWire(req.body.subjectId)]
           /\ response = AnswerByBody

\* alice, signed in, has been told that bob holds a permission
C37_Witness ==
    /\ Serving({"check"})
    /\ req.session.present /\ req.session.user.id = "alice"
    /\ req.body.subjectId = "bob"
    /\ response = Json([allowed |-> TRUE], 200)
    /\ calls[1].subject.objectId = OnWire("bob")

\* a caller without a session has been given the resources of bob
C37_WitnessAnonymous ==
    /\ Serving({"lookupResources"})
    /\ ~req.session.present
    /\ req.body.subjectId = "bob"
    /\ response.kind = "json" /\ response.status = 200
    /\ Len(response.body.resourceIds) > 0

-----------------------------------------------------------------------------
(* Properties of awaited dispatches *)

\* organization:<organizationId>#member@user:<userId> for the payload data
MemberTuple(data) ==
    [resource |-> [objectType |-> "organization", objectId |-> OnWire(data.organizationId)],
     relation |-> "member",
     subject  |-> [objectType |-> "user", objectId |-> OnWire(data.userId)]]

\* C38: with dispatches awaited one after the other and no remote failure,
\* the membership tuple follows the emit order: it is present once a
\* member-added dispatch has resolved and absent once a member-removed
\* dispatch has resolved, and between dispatches it stays as the last of
\* them left it, so that added-then-removed leaves it absent and
\* removed-then-added leaves it present
C38_EffectsInEmitOrder ==
    /\ []((Serving({"emitEvent"}) /\ response = Resolved)
              => /\ req.eventName = "organization.addMember"
                        => MemberTuple(req.data) \in store
                 /\ req.eventName = "organization.removeMember"
                        => MemberTuple(req.data) \notin store)
    /\ [][\A data \in FullPayloads :
               (MemberTuple(data) \in store) # (MemberTuple(data) \in store')
                   => /\ req'.endpoint = "emitEvent" /\ req'.data = data
                      /\ req'.eventName = IF MemberTuple(data) \in store'
                                          THEN "organization.addMember"
                                          ELSE "organization.removeMember"]_vars

\* a member-removed dispatch has resolved after a member-added dispatch (the
\* admin tuple a mapping wrote on that event is there) and the membership
\* tuple is gone
C38_Witness ==
    /\ Serving({"emitEvent"}) /\ req.eventName = "organization.removeMember"
    /\ response = Resolved
    /\ options.relationships = <<OrganizationAdmin>>
    /\ store = {[MemberTuple(req.data) EXCEPT !.relation = "admin"]}

\* a member-added dispatch has resolved and the membership tuple is there
C38_WitnessAdded ==
    /\ Serving({"emitEvent"}) /\ req.eventName = "organization.addMember"
    /\ response = Resolved
    /\ MemberTuple(req.data) \in store

-----------------------------------------------------------------------------
(* Properties of the example application's agents endpoint *)

\* the engine has answered that the caller of req may view agent id, asked
\* about it as one of the requested ids
ReportedAllowed(id) ==
    \E k \in 1..Len(replies) :
        /\ req.ids[replies[k].index] = id
        /\ replies[k].outcome = [ok |-> TRUE, permissionship |-> "HAS_PERMISSION"]
        /\ calls[replies[k].index].permission = "view"
        /\ calls[replies[k].index].resource =
               [objectType |-> "agent", objectId |-> OnWire(id)]
        /\ calls[replies[k].index].subject =
               [objectType |-> "user", objectId |-> OnWire(req.session.user.id)]

C39_WitnessFailure ==
    /\ Serving({"GET /api/agents"})
    /\ Failures # {}
    /\ response.kind = "json" /\ response.status = 500

====
